---- MODULE Spec2Model ----
(***************************************************************************)
(* Model of the repository-acquisition and PR/MR publication slice of      *)
(* SWE-agent: the OpenPR / OpenMR run hooks, the GitLab REST helpers and   *)
(* the repo configurations.                                                *)
(*                                                                         *)
(* Text is modelled as a sequence of tokens (TLA+ strings).  A token is    *)
(* atomic: no token of the alphabet begins with the characters of another  *)
(* one, so "starts with" on text is "first non-empty token is".  URLs are  *)
(* the sequence of their '/'-separated segments.                           *)
(***************************************************************************)
EXTENDS Integers, Sequences, FiniteSets, TLC

\* ------------------------------------------------------------------ bounds
\* longest merge-request list the GitLab search returns
MaxMRs == 1
\* most commits the GitHub lookup reports for an issue
MaxGhCommits == 1
\* longest trajectory given to format_trajectory_markdown
MaxTrajectory == 2
\* longest merge-request list given to a lookup called on its own
MaxLookupMRs == 2

\* ------------------------------------------------------- text and URLs
Norm(s) == SelectSeq(s, LAMBDA t : t # "")

StartsWith(s, tok) == Norm(s) # <<>> /\ Head(Norm(s)) = tok

\* shlex.quote of a text that contains a blank: wrapped in single quotes
Quote(s) == <<"'">> \o s \o <<"'">>

DigitTokens == {"1", "7", "12"}

GhIssueUrl == <<"https:", "", "github.com", "o", "r", "issues", "1">>
GlIssueUrl == <<"https:", "", "gitlab.com", "o", "r", "-", "issues", "1">>
GlNestedIssueUrl == <<"https:", "", "gitlab.com", "g", "o", "r", "-", "issues", "1">>
GlRepoUrl == <<"https:", "", "gitlab.com", "o", "r">>
GlMrUrl == <<"https:", "", "gitlab.com", "o", "r", "-", "merge_requests", "7">>
GlSelfHostedIssueUrl == <<"https:", "", "gitlab.example.com", "o", "r", "-", "issues", "12">>

\* GITLAB_ISSUE_URL_PATTERN  (.*?)/([^/]+)/([^/]+)/-/issues/(\d+) :
\* j segments form group 1, then owner, repo, "-", "issues", number
IssueMatchAt(url, j) ==
    /\ j >= 1
    /\ j + 5 <= Len(url)
    /\ url[j + 1] # ""
    /\ url[j + 2] # ""
    /\ url[j + 3] = "-"
    /\ url[j + 4] = "issues"
    /\ url[j + 5] \in DigitTokens

_is_gitlab_issue_url(url) == \E j \in 1..Len(url) : IssueMatchAt(url, j)

\* the lazy group 1 takes the shortest prefix that lets the rest match
IssueMatchPos(url) ==
    CHOOSE j \in 1..Len(url) :
        /\ IssueMatchAt(url, j)
        /\ \A k \in 1..(j - 1) : ~IssueMatchAt(url, k)

\* a parser that drops the protocol from group 1, as the repo parser does
_parse_gitlab_issue_url_host_only(url) ==
    LET j == IssueMatchPos(url)
    IN  [instance |-> SubSeq(url, 3, j),
         owner    |-> url[j + 1],
         repo     |-> url[j + 2],
         number   |-> url[j + 5]]

_parse_gitlab_issue_url(url) ==
    LET j == IssueMatchPos(url)
    IN  [instance |-> SubSeq(url, 1, j),
         owner    |-> url[j + 1],
         repo     |-> url[j + 2],
         number   |-> url[j + 5]]

\* github\.com/(.*?)/(.*?)/issues/(\d+)
_is_github_issue_url(url) ==
    \E j \in 1..Len(url) :
        /\ j + 4 <= Len(url)
        /\ url[j] = "github.com"
        /\ url[j + 3] = "issues"
        /\ url[j + 4] \in DigitTokens

_parse_gh_issue_url(url) ==
    LET j == CHOOSE k \in 1..Len(url) :
                 /\ k + 4 <= Len(url)
                 /\ url[k] = "github.com"
                 /\ url[k + 3] = "issues"
                 /\ url[k + 4] \in DigitTokens
    IN  [owner |-> url[j + 1], repo |-> url[j + 2], number |-> url[j + 4]]

_determine_repo_type(url) ==
    IF _is_github_issue_url(url) THEN "github"
    ELSE IF _is_gitlab_issue_url(url) THEN "gitlab"
    ELSE "github"

\* urlparse(instance).netloc of scheme://host[/path]
Netloc(instance) ==
    IF Len(instance) >= 3 /\ instance[1] \in {"http:", "https:"} /\ instance[2] = ""
    THEN instance[3] ELSE ""

\* str.lower() on the tokens of the alphabet
Lower(tok) ==
    CASE tok = "Closes"  -> "closes"
      [] tok = "Fixes"   -> "fixes"
      [] tok = "Project" -> "project"
      [] tok = "OAuth"   -> "oauth"
      [] OTHER           -> tok

\* ------------------------------------------------------- GitLab REST client
TokenTypes == {"oauth", "private", "personal", "project", "group"}
PrivateTokenTypes == {"private", "personal", "project", "group"}
UrlTokenTypes == {"private", "personal"}
Tokens == {"", "glpat"}

\* headers of a client that knows private and personal tokens only
ClientHeadersTwoTypes(token, token_type) ==
    IF token = "" THEN {}
    ELSE IF Lower(token_type) \in {"private", "personal"}
         THEN {<<"PRIVATE-TOKEN", <<token>> >>}
         ELSE {<<"Authorization", <<"Bearer ", token>> >>}

\* headers built by _get_gitlab_api_client, as a set of <<name, value>>
ClientHeaders(token, token_type) ==
    IF token = "" THEN {}
    ELSE IF Lower(token_type) \in PrivateTokenTypes
         THEN {<<"PRIVATE-TOKEN", <<token>> >>}
         ELSE {<<"Authorization", <<"Bearer ", token>> >>}

Request(kind, token, token_type) ==
    [req |-> kind, auth |-> ClientHeaders(token, token_type),
     title |-> <<>>, source |-> <<>>, target |-> "", draft |-> FALSE, ok |-> TRUE]

\* a title that is prefixed whatever it begins with
DraftTitleAlways(title, draft) ==
    IF draft THEN <<"Draft: ">> \o title ELSE title

\* create_merge_request: the title that is posted
DraftTitle(title, draft) ==
    IF draft /\ ~StartsWith(title, "Draft: ") /\ ~StartsWith(title, "WIP: ")
    THEN <<"Draft: ">> \o title
    ELSE title

CreateMrRequests(source_branch, target_branch, title, token, token_type, draft) ==
    << Request("project", token, token_type),
       [req |-> "create_mr", auth |-> ClientHeaders(token, token_type),
        title |-> DraftTitle(title, draft), source |-> source_branch,
        target |-> target_branch, draft |-> draft, ok |-> TRUE] >>

\* the first k requests of reqs, the k-th answered with a non-2xx status
FailAt(reqs, k) ==
    [i \in 1..k |-> IF i = k THEN [reqs[i] EXCEPT !.ok = FALSE] ELSE reqs[i]]

\* _get_gitlab_issue_data: project-id lookup, then the issue
IssueDataRequests(token, token_type) ==
    << Request("project", token, token_type), Request("issue", token, token_type) >>


\* ------------------------------------------- associated-commit lookup
Digits(tok) ==
    CASE tok = "1"  -> <<1>>
      [] tok = "7"  -> <<7>>
      [] tok = "12" -> <<1, 2>>
      [] OTHER      -> <<>>

IsPrefix(a, b) == Len(a) <= Len(b) /\ SubSeq(b, 1, Len(a)) = a

\* the test without .lower() on the description
MrMentionsCaseSensitive(mr, issue_number) ==
    /\ mr.verb \in {"fixes", "closes"}
    /\ issue_number # ""
    /\ IsPrefix(Digits(issue_number), Digits(mr.num))

\* a merge request whose description is  <verb> #<num>
\* f"fixes #{n}" in description.lower() or f"closes #{n}" in description.lower()
MrMentions(mr, issue_number) ==
    /\ Lower(mr.verb) \in {"fixes", "closes"}
    /\ issue_number # ""
    /\ IsPrefix(Digits(issue_number), Digits(mr.num))

MergeRequests ==
    { [verb |-> "closes", num |-> "1",  ncommits |-> 1],
      [verb |-> "Closes", num |-> "1",  ncommits |-> 0],
      [verb |-> "closes", num |-> "12", ncommits |-> 1],
      [verb |-> "see",    num |-> "1",  ncommits |-> 1] }

MRLists == UNION { [1..n -> MergeRequests] : n \in 0..MaxMRs }

CommitUrlsOf(i, n) == [c \in 1..n |-> <<i, c>>]

RECURSIVE AssociatedFrom(_, _, _)
AssociatedFrom(ms, i, issue_number) ==
    IF i > Len(ms) THEN <<>>
    ELSE (IF MrMentions(ms[i], issue_number)
          THEN CommitUrlsOf(i, ms[i].ncommits) ELSE <<>>)
         \o AssociatedFrom(ms, i + 1, issue_number)

\* the web URLs _get_associated_commit_urls returns
_get_associated_commit_urls(ms, issue_number) == AssociatedFrom(ms, 1, issue_number)

RECURSIVE CommitRequestsFrom(_, _, _, _, _)
CommitRequestsFrom(ms, i, issue_number, token, token_type) ==
    IF i > Len(ms) THEN <<>>
    ELSE (IF MrMentions(ms[i], issue_number)
          THEN <<Request("commits", token, token_type)>> ELSE <<>>)
         \o CommitRequestsFrom(ms, i + 1, issue_number, token, token_type)

\* the requests _get_associated_commit_urls sends
AssociatedRequests(ms, issue_number, token, token_type) ==
    << Request("project", token, token_type), Request("mrs", token, token_type) >>
    \o CommitRequestsFrom(ms, 1, issue_number, token, token_type)

\* GitHub side (sweagent.utils.github)
GhHeaders(token) ==
    IF token = "" THEN {} ELSE {<<"Authorization", <<"Bearer ", token>> >>}

GhRequest(kind, token) ==
    [req |-> kind, auth |-> GhHeaders(token),
     title |-> <<>>, source |-> <<>>, target |-> "", draft |-> FALSE, ok |-> TRUE]

GhCommitLists == { CommitUrlsOf(0, n) : n \in 0..MaxGhCommits }

\* ------------------------------------------------------------ state
VARIABLES
    op,          \* entry point that is running
    pc,          \* position inside it
    fn,          \* publication function in progress
    result,      \* AgentRunResult.info
    ps,          \* problem statement: the URL attribute it has, and the URL
    skip,        \* config.skip_if_commits_reference_issue
    target_branch, \* config.target_branch
    dry_run,     \* _dry_run
    token,       \* GitLab token
    token_type,  \* GitLab token type, lower-cased
    gh_token,    \* GitHub token
    issue,       \* issue record last fetched
    mrs,         \* merge requests the search returned
    commits,     \* associated commit URLs found by the guard
    verdict,     \* what should_open_mr / should_open_pr returned
    branch_name, \* branch the publication works on
    cmds,        \* commands sent to the sandbox, in order
    http,        \* REST requests sent, in order
    extraHeader, \* sandbox: global git http.extraHeader
    originUrl,   \* sandbox: URL of remote origin
    outcome,     \* "running", "returned" or "raised"
    error,       \* message of the exception raised
    log,         \* messages passed to logger.error
    arg,         \* argument of a function called on its own
    ret,         \* what that function returned
    ran          \* commands of a compound shell command that were run

vars == <<op, pc, fn, result, ps, skip, target_branch, dry_run, token, token_type, gh_token,
          issue, mrs, commits, verdict, branch_name, cmds, http, extraHeader,
          originUrl, outcome, error, log, arg, ret, ran>>

NoIssue == [state |-> "none", assignee |-> FALSE, locked |-> FALSE,
            iid |-> "", title |-> <<>>]

Titles == { <<"Bug">>, <<"Draft: ", "x">> }

IssueRecords(states, number) ==
    [state : states, assignee : BOOLEAN, locked : BOOLEAN,
     iid : {number}, title : Titles]

RandomSuffixes == {"12345678", "87654321"}

Results == [submission : BOOLEAN, exit_status : {"submitted", "exit_cost"}]

ProblemStatements ==
    { [attr |-> "github_url", url |-> GhIssueUrl],
      [attr |-> "github_url", url |-> GlIssueUrl],
      [attr |-> "gitlab_url", url |-> GlIssueUrl],
      [attr |-> "gitlab_url", url |-> GlNestedIssueUrl],
      [attr |-> "gitlab_url", url |-> GlRepoUrl],
      [attr |-> "none",       url |-> <<>>] }

GhTokens == {"", "ghp"}

\* values of target_branch in OpenPRConfig / OpenMRConfig; "main" is the default
TargetBranches == {"main", "develop"}

InitSandbox ==
    /\ issue = NoIssue
    /\ mrs = <<>>
    /\ commits = <<>>
    /\ verdict = "none"
    /\ branch_name = <<>>
    /\ cmds = <<>>
    /\ http = <<>>
    /\ extraHeader \in {"", "other"}
    /\ originUrl = <<"origin">>
    /\ outcome = "running"
    /\ error = ""
    /\ log = <<>>
    /\ ret = <<>>
    /\ ran = <<>>

\* a hook after on_init, about to receive on_instance_completed
InitHook ==
    /\ op \in {"OpenMRHook", "OpenPRHook"}
    /\ pc = "guard"
    /\ fn = "none"
    /\ result \in Results
    /\ ps \in ProblemStatements
    /\ skip \in BOOLEAN
    /\ target_branch \in TargetBranches
    /\ dry_run = FALSE
    /\ token \in Tokens
    /\ token_type \in TokenTypes
    /\ gh_token \in GhTokens
    /\ arg = <<>>
    /\ InitSandbox

\* a publication function called on its own, where _dry_run may be set
InitDirect ==
    /\ op \in {"open_mr", "open_gitlab_mr", "open_github_pr"}
    /\ pc = "fetch_issue"
    /\ fn = op
    /\ result = [submission |-> TRUE, exit_status |-> "submitted"]
    /\ ps \in { p \in ProblemStatements :
                  IF op = "open_github_pr" THEN p.attr = "github_url" /\ p.url = GhIssueUrl
                  ELSE p.attr = "gitlab_url" }
    /\ skip = TRUE
    /\ target_branch = "main"
    /\ dry_run \in BOOLEAN
    /\ token \in (IF op = "open_github_pr" THEN {""} ELSE Tokens)
    /\ token_type \in (IF op = "open_github_pr" THEN {"oauth"} ELSE TokenTypes)
    /\ gh_token \in (IF op = "open_github_pr" THEN GhTokens ELSE {""})
    /\ arg = <<>>
    /\ InitSandbox


\* ------------------------------------------------------ the guards
\* the checks without the one for a locked issue
IssueChecksNoLock(open_state, iss) ==
    IF iss.state # open_state THEN FALSE
    ELSE IF iss.assignee THEN FALSE
    ELSE TRUE

\* state / assignee / locked checks of should_open_mr and should_open_pr
IssueChecks(open_state, iss) ==
    IF iss.state # open_state THEN FALSE
    ELSE IF iss.assignee THEN FALSE
    ELSE IF iss.locked THEN FALSE
    ELSE TRUE

\* the associated-commits check that follows them
CommitCheck(cs, skp) ==
    IF cs # <<>> /\ skp THEN FALSE ELSE TRUE

GuardReturn(v, reqs, iss, ms, cs, nextfn) ==
    /\ verdict' = v
    /\ http' = http \o reqs
    /\ issue' = iss
    /\ mrs' = ms
    /\ commits' = cs
    /\ IF v = "true"
       THEN pc' = "fetch_issue" /\ fn' = nextfn /\ outcome' = outcome
       ELSE pc' = "done" /\ fn' = fn /\ outcome' = "returned"
    /\ UNCHANGED <<error, log, arg, ret, ran>>

\* a request answered with a non-2xx status: raise_for_status propagates
GuardRaise(reqs, iss, ms) ==
    /\ http' = http \o reqs
    /\ issue' = iss
    /\ mrs' = ms
    /\ pc' = "done"
    /\ outcome' = "raised"
    /\ error' = "HTTPError"
    /\ UNCHANGED <<verdict, commits, fn, log, arg, ret, ran>>

\* issue fetch and commit lookup on a GitLab issue URL; issue_tt is the
\* token type the issue fetch is given
GitlabGuard(issue_tt, nextfn) ==
    LET p == _parse_gitlab_issue_url(ps.url)
    IN  \E iss \in IssueRecords({"opened", "closed"}, p.number), ms \in MRLists :
          LET ok   == IssueChecks("opened", iss)
              cs   == IF ok THEN _get_associated_commit_urls(ms, p.number) ELSE <<>>
              reqs == IssueDataRequests(token, issue_tt)
                      \o (IF ok THEN AssociatedRequests(ms, p.number, token, token_type)
                          ELSE <<>>)
          IN  \E k \in 0..Len(reqs) :
                IF k = 0
                THEN GuardReturn(IF ok /\ CommitCheck(cs, skip) THEN "true" ELSE "false",
                                 reqs, iss, IF ok THEN ms ELSE <<>>, cs, nextfn)
                ELSE GuardRaise(FailAt(reqs, k),
                                IF k > 2 THEN iss ELSE NoIssue,
                                IF k > 4 THEN ms ELSE <<>>)

GithubGuard(nextfn) ==
    LET p == _parse_gh_issue_url(ps.url)
    IN  \E iss \in IssueRecords({"open", "closed"}, p.number), cs0 \in GhCommitLists :
          LET ok   == IssueChecks("open", iss)
              cs   == IF ok THEN cs0 ELSE <<>>
              reqs == <<GhRequest("gh_issue", gh_token)>>
                      \o (IF ok THEN <<GhRequest("gh_commits", gh_token)>> ELSE <<>>)
          IN  \E k \in 0..Len(reqs) :
                IF k = 0
                THEN GuardReturn(IF ok /\ CommitCheck(cs, skip) THEN "true" ELSE "false",
                                 reqs, iss, <<>>, cs, nextfn)
                ELSE GuardRaise(FailAt(reqs, k), IF k > 1 THEN iss ELSE NoIssue, <<>>)

\* early returns that leave out the exit status
NoSubmissionOnly(res) == ~res.submission

\* the two early returns that open should_open_mr and should_open_pr
NoSubmission(res) == ~res.submission \/ res.exit_status # "submitted"

\* OpenMRHook.on_instance_completed up to the call of open_mr
ShouldOpenMR ==
    /\ op = "OpenMRHook"
    /\ pc = "guard"
    /\ IF \/ NoSubmission(result)
          \/ ps.attr # "gitlab_url"
          \/ ~_is_gitlab_issue_url(ps.url)
       THEN GuardReturn("false", <<>>, NoIssue, <<>>, <<>>, "none")
       ELSE GitlabGuard(token_type, "open_mr")
    /\ UNCHANGED <<op, result, ps, skip, target_branch, dry_run, token, token_type, gh_token,
                   branch_name, cmds, extraHeader, originUrl>>

\* OpenPRHook.on_instance_completed up to the call of open_pr
ShouldOpenPR ==
    /\ op = "OpenPRHook"
    /\ pc = "guard"
    /\ IF \/ NoSubmission(result)
          \/ ps.attr = "none"
       THEN GuardReturn("false", <<>>, NoIssue, <<>>, <<>>, "none")
       ELSE IF _is_github_issue_url(ps.url)
       THEN GithubGuard("open_github_pr")
       ELSE IF _is_gitlab_issue_url(ps.url)
       THEN GitlabGuard("project",
                        IF _determine_repo_type(ps.url) = "gitlab"
                        THEN "open_gitlab_mr" ELSE "open_github_pr")
       ELSE GuardReturn("false", <<>>, NoIssue, <<>>, <<>>, "none")
    /\ UNCHANGED <<op, result, ps, skip, target_branch, dry_run, token, token_type, gh_token,
                   branch_name, cmds, extraHeader, originUrl>>


\* ------------------------------------------- the publication sequence
GitlabFns == {"open_mr", "open_gitlab_mr"}

\* token types for which the function sets the PRIVATE-TOKEN header
HeaderTypes(f) == IF f = "open_mr" THEN PrivateTokenTypes ELSE UrlTokenTypes

\* check mode of SWEEnv.communicate when the caller passes none
DefaultCheck == "raise"

\* call sites where the commit is sent with check="warn"
CheckOfCommitWarn(step) ==
    IF step \in {"set_user", "rm_patch", "checkout", "add"} THEN "raise"
    ELSE IF step = "commit" THEN "warn"
    ELSE DefaultCheck

\* the check argument each call site passes
CheckOf(step) ==
    IF step \in {"set_user", "rm_patch", "checkout", "add", "commit"}
    THEN "raise" ELSE DefaultCheck

\* SWEEnv.communicate raises on a non-zero exit under check="raise"
Raises(check, ok) == ~ok /\ check = "raise"

SetUserCmd ==
    <<"git config user.email 'noemail@swe-agent.com' && git config user.name 'SWE-agent'">>
RmPatchCmd == <<"rm -f model.patch">>
CheckoutCmd(b) == <<"git checkout -b ">> \o b
AddCmd == <<"git add .">>

DryRunFlag(dry) == IF dry THEN "--allow-empty" ELSE ""

\* the two -m arguments; open_github_pr quotes plain (not f-) strings
CommitMsg(f, iss) ==
    IF f = "open_github_pr"
    THEN << <<"Fix: {issue.title}">>, <<"Closes #{issue.number}">> >>
    ELSE << <<"Fix: ">> \o iss.title, <<"Closes #", iss.iid>> >>

CommitCmd(f, iss, dry) ==
    <<"git commit -m ">> \o Quote(CommitMsg(f, iss)[1])
    \o <<IF f = "open_github_pr" THEN " -m  " ELSE " -m ">>
    \o Quote(CommitMsg(f, iss)[2]) \o <<" ", DryRunFlag(dry)>>

SetHeaderCmd(tok) == <<"git config --global http.extraHeader 'PRIVATE-TOKEN: ", tok, "'">>

ForkUrl(f, tok, tt, url) ==
    LET p == _parse_gitlab_issue_url(url)
        hostname == Netloc(p.instance)
    IN  IF f = "open_gitlab_mr" /\ tt \in UrlTokenTypes
        THEN <<"https://", tok, ":x-oauth-basic@", hostname, "/", p.owner, "/", p.repo, ".git">>
        ELSE <<"https://oauth2:", tok, "@", hostname, "/", p.owner, "/", p.repo, ".git">>

SetUrlCmd(fork_url) == <<"git remote set-url origin ">> \o fork_url

\* a push that ignores _dry_run
DryRunPrefixNone(dry) == ""

DryRunPrefix(dry) == IF dry THEN "echo " ELSE ""

PushCmd(dry, remote, b) == <<DryRunPrefix(dry), " git push ", remote, " ">> \o b

UnsetHeaderCmd == <<"git config --global --unset http.extraHeader || true">>

\* a publication that goes from the commit straight to the request
AfterCommitNoPush == "create"

AfterCommit ==
    IF fn = "open_github_pr" \/ token = "" THEN "push"
    ELSE IF token_type \in HeaderTypes(fn) THEN "set_header"
    ELSE "set_url"

AfterCleanup == IF dry_run THEN "done" ELSE "create"

AfterPush ==
    IF fn \in GitlabFns /\ token # "" /\ token_type \in HeaderTypes(fn)
    THEN "unset_header" ELSE AfterCleanup

\* the error_msg each call site passes
ErrorMsg(f, step) ==
    CASE step = "set_user"     -> "Failed to set git user"
      [] step = "rm_patch"     -> "Failed to remove model patch"
      [] step = "checkout"     -> "Failed to switch to new branch"
      [] step = "add"          -> "Failed to add commits"
      [] step = "commit"       -> "Failed to commit changes"
      [] step = "set_header"   -> "Failed to set git config for private token"
      [] step = "set_url"      -> "Failed to update git remote"
      [] step = "push"         ->
            IF f = "open_github_pr"
            THEN "Failed to push branch to remote. Please check your token and permissions. You might want to push to a fork with the push_gh_repo_url option."
            ELSE "Failed to push branch to remote. Please check your token and permissions."
      [] step = "unset_header" -> "Failed to clean up git config"

\* what the sandbox was sent and how it answered
Sent(step, cmd, ok) == [step |-> step, cmd |-> cmd, exit |-> IF ok THEN 0 ELSE 1]

\* one env.communicate call
Communicate(step, cmd, ok, nxt) ==
    /\ cmds' = Append(cmds, Sent(step, cmd, ok))
    /\ IF Raises(CheckOf(step), ok)
       THEN pc' = "done" /\ outcome' = "raised" /\ error' = ErrorMsg(fn, step)
       ELSE /\ pc' = nxt
            /\ outcome' = (IF nxt = "done" THEN "returned" ELSE outcome)
            /\ error' = error

Inputs == <<op, fn, result, ps, skip, target_branch, dry_run, token, token_type,
            gh_token>>

\* issue = _get_..._issue_data(issue_url); branch_name = ... random digits
FetchIssue ==
    /\ pc = "fetch_issue"
    /\ IF fn = "open_github_pr"
       THEN IF ~_is_github_issue_url(ps.url)
            THEN /\ pc' = "done" /\ outcome' = "raised"
                 /\ error' = "Data path must be a github issue URL if open_pr is set to True."
                 /\ UNCHANGED <<http, issue, branch_name>>
            ELSE \E t \in Titles, rnd \in RandomSuffixes, failed \in BOOLEAN :
                   /\ http' = Append(http, [GhRequest("gh_issue", gh_token)
                                               EXCEPT !.ok = ~failed])
                   /\ IF failed
                      THEN /\ pc' = "done" /\ outcome' = "raised" /\ error' = "HTTPError"
                           /\ UNCHANGED <<issue, branch_name>>
                      ELSE /\ issue' = [issue EXCEPT !.iid = _parse_gh_issue_url(ps.url).number,
                                                     !.title = t]
                           /\ branch_name' = <<"swe-agent-fix-#", issue'.iid, "-", rnd>>
                           /\ pc' = "set_user"
                           /\ UNCHANGED <<outcome, error>>
       ELSE IF ~_is_gitlab_issue_url(ps.url)
            THEN /\ pc' = "done" /\ outcome' = "raised"
                 /\ error' = "Data path must be a GitLab issue URL"
                 /\ UNCHANGED <<http, issue, branch_name>>
            ELSE \E t \in Titles, rnd \in RandomSuffixes, k \in 0..2 :
                   LET reqs == IssueDataRequests(token, token_type)
                   IN  IF k > 0
                       THEN /\ http' = http \o FailAt(reqs, k)
                            /\ pc' = "done" /\ outcome' = "raised" /\ error' = "HTTPError"
                            /\ UNCHANGED <<issue, branch_name>>
                       ELSE /\ http' = http \o reqs
                            /\ issue' = [issue EXCEPT
                                           !.iid = _parse_gitlab_issue_url(ps.url).number,
                                           !.title = t]
                            /\ branch_name' = <<"swe-agent-fix-#", issue'.iid, "-", rnd>>
                            /\ pc' = "set_user"
                            /\ UNCHANGED <<outcome, error>>
    /\ UNCHANGED <<Inputs, mrs, commits, verdict, cmds, extraHeader, originUrl, log,
                   arg, ret, ran>>

Frame == <<Inputs, issue, mrs, commits, verdict, branch_name, http, log, arg, ret, ran>>

SetGitUser ==
    /\ pc = "set_user"
    /\ \E ok \in BOOLEAN :
         Communicate("set_user", SetUserCmd, ok, "rm_patch")
    /\ UNCHANGED <<Frame, extraHeader, originUrl>>

RemovePatch ==
    /\ pc = "rm_patch"
    /\ \E ok \in BOOLEAN :
         Communicate("rm_patch", RmPatchCmd, ok, "checkout")
    /\ UNCHANGED <<Frame, extraHeader, originUrl>>

CheckoutBranch ==
    /\ pc = "checkout"
    /\ \E ok \in BOOLEAN :
         Communicate("checkout", CheckoutCmd(branch_name), ok, "add")
    /\ UNCHANGED <<Frame, extraHeader, originUrl>>

GitAdd ==
    /\ pc = "add"
    /\ \E ok \in BOOLEAN :
         Communicate("add", AddCmd, ok, "commit")
    /\ UNCHANGED <<Frame, extraHeader, originUrl>>

GitCommit ==
    /\ pc = "commit"
    /\ \E ok \in BOOLEAN :
         Communicate("commit", CommitCmd(fn, issue, dry_run), ok, AfterCommit)
    /\ UNCHANGED <<Frame, extraHeader, originUrl>>

SetExtraHeader ==
    /\ pc = "set_header"
    /\ \E ok \in BOOLEAN :
         /\ Communicate("set_header", SetHeaderCmd(token), ok, "set_url")
         /\ extraHeader' = IF ok THEN "PRIVATE-TOKEN" ELSE extraHeader
    /\ UNCHANGED <<Frame, originUrl>>

SetRemoteUrl ==
    /\ pc = "set_url"
    /\ \E ok \in BOOLEAN :
         /\ Communicate("set_url", SetUrlCmd(ForkUrl(fn, token, token_type, ps.url)), ok, "push")
         /\ originUrl' = IF ok THEN ForkUrl(fn, token, token_type, ps.url) ELSE originUrl
    /\ UNCHANGED <<Frame, extraHeader>>

GitPush ==
    /\ pc = "push"
    /\ \E ok \in BOOLEAN :
         Communicate("push", PushCmd(dry_run, "origin", branch_name), ok, AfterPush)
    /\ UNCHANGED <<Frame, extraHeader, originUrl>>

\* "... --unset http.extraHeader || true" always exits 0
UnsetExtraHeader ==
    /\ pc = "unset_header"
    /\ Communicate("unset_header", UnsetHeaderCmd, TRUE, AfterCleanup)
    /\ extraHeader' = ""
    /\ UNCHANGED <<Frame, originUrl>>

PrRequest(title, head, base, tok) ==
    [req |-> "gh_create_pr", auth |-> GhHeaders(tok),
     title |-> title, source |-> head, target |-> base, draft |-> TRUE, ok |-> TRUE]

\* the "if not _dry_run:" block that ends each publication function
CreateRequest ==
    /\ pc = "create"
    /\ pc' = "done"
    /\ IF fn = "open_github_pr"
       THEN \E failed \in BOOLEAN :
              /\ http' = Append(http, [PrRequest(<<"SWE-agent[bot] PR to fix: ">> \o issue.title,
                                                 branch_name, "main", gh_token)
                                       EXCEPT !.ok = ~failed])
              /\ outcome' = IF failed THEN "raised" ELSE "returned"
              /\ error' = IF failed THEN "HTTPError" ELSE error
              /\ log' = log
       ELSE \E k \in 0..2 :
              LET reqs == CreateMrRequests(branch_name, "main",
                                           <<"SWE-agent[bot] MR to fix: ">> \o issue.title,
                                           token, token_type, TRUE)
              IN  /\ http' = http \o (IF k = 0 THEN reqs ELSE FailAt(reqs, k))
                  /\ outcome' = "returned"
                  /\ error' = error
                  /\ log' = IF k = 0 THEN log
                            ELSE Append(log, "Failed to create GitLab merge request")
    /\ UNCHANGED <<Inputs, issue, mrs, commits, verdict, branch_name, cmds,
                   extraHeader, originUrl, arg, ret, ran>>

\* ------------------------------------------------ repo configurations
BaseCommits == {"HEAD", "abc123"}

GlSshUrl == <<"git@gitlab.com:o", "r.git">>
GlUserUrl == <<"https:", "", "user@gitlab.com", "o", "r">>
GhRepoUrl == <<"https:", "", "github.com", "o", "r">>

GitlabRepoUrls == {GlRepoUrl, GlSshUrl, GlUserUrl}

RepoConfigs ==
    [type : {"preexisting"}, url : {<<"r">>}, base_commit : BaseCommits]
    \cup [type : {"local"}, url : {<<"", "tmp", "r">>}, base_commit : BaseCommits]
    \cup [type : {"github"}, url : {GhRepoUrl}, base_commit : BaseCommits]
    \cup [type : {"gitlab"}, url : GitlabRepoUrls, base_commit : BaseCommits]

\* reset commands that clean ignored files too
_get_git_reset_commands_fdx(base_commit) ==
    << <<"git status">>,
       <<"git restore .">>,
       <<"git reset --hard ", base_commit>>,
       <<"git clean -fdx">> >>

_get_git_reset_commands(base_commit) ==
    << <<"git status">>,
       <<"git restore .">>,
       <<"git reset --hard ", base_commit>>,
       <<"git clean -fdq">> >>

\* the get_reset_commands method of the four config classes
get_reset_commands(cfg) ==
    CASE cfg.type = "preexisting" -> _get_git_reset_commands(cfg.base_commit)
      [] cfg.type = "local"       -> _get_git_reset_commands(cfg.base_commit)
      [] cfg.type = "github"      -> _get_git_reset_commands(cfg.base_commit)
      [] cfg.type = "gitlab"      -> _get_git_reset_commands(cfg.base_commit)

RECURSIVE SlashJoin(_)
SlashJoin(url) ==
    IF Len(url) = 0 THEN <<>>
    ELSE IF Len(url) = 1 THEN url
    ELSE <<url[1], "/">> \o SlashJoin(Tail(url))

\* segments that hold an '@'
AtTokens == {"git@gitlab.com:o", "git@github.com:o", "user@gitlab.com"}

HasAt(url) == \E i \in 1..Len(url) : url[i] \in AtTokens

\* third part of url.partition("://")
UrlNoProtocol(url) ==
    IF Len(url) >= 3 /\ url[1] \in {"http:", "https:"} /\ url[2] = ""
    THEN SubSeq(url, 3, Len(url)) ELSE <<>>

\* _get_url_with_token without the test for an '@' in the URL
_get_url_with_token_no_at_test(url, tok, tt) ==
    IF tok = "" THEN SlashJoin(url)
    ELSE IF Lower(tt) \in UrlTokenTypes
         THEN <<"https://", tok, ":x-oauth-basic@">> \o SlashJoin(UrlNoProtocol(url))
         ELSE <<"https://oauth2:", tok, "@">> \o SlashJoin(UrlNoProtocol(url))

\* GitlabRepoConfig._get_url_with_token
_get_url_with_token(url, tok, tt) ==
    IF tok = "" THEN SlashJoin(url)
    ELSE IF HasAt(url) THEN SlashJoin(url)
    ELSE IF Lower(tt) \in UrlTokenTypes
         THEN <<"https://", tok, ":x-oauth-basic@">> \o SlashJoin(UrlNoProtocol(url))
         ELSE <<"https://oauth2:", tok, "@">> \o SlashJoin(UrlNoProtocol(url))

\* a repo group that keeps the .git suffix
StripGitKeep(tok) == tok

\* ([^/\n]+?)(?:\.git)?$ : the lazy repo group leaves a final .git out
StripGit(tok) == IF tok = "r.git" THEN "r" ELSE tok

\* .replace("https://", "").replace("http://", "").replace(".", "_")
Sanitize(host) ==
    CASE host = "gitlab.com"         -> "gitlab_com"
      [] host = "user@gitlab.com"    -> "user@gitlab_com"
      [] host = "gitlab.example.com" -> "gitlab_example_com"
      [] host = "github.com"         -> "github_com"
      [] host = "bitbucket.org"      -> "bitbucket_org"
      [] OTHER                       -> host

\* git@([^/:]+): , the host of the first segment of an SSH URL
SshHost(tok) == IF tok = "git@github.com:o" THEN "github.com" ELSE "gitlab.com"

\* GITLAB_REPO_URL_PATTERN on scheme://host/owner/repo and git@host:owner/repo
_parse_gitlab_repo_url(url) ==
    IF Len(url) = 2
    THEN [instance |-> SshHost(url[1]), owner |-> "o", repo |-> StripGit(url[2])]
    ELSE [instance |-> url[3], owner |-> url[4], repo |-> StripGit(url[5])]

repo_name(url) ==
    LET p == _parse_gitlab_repo_url(url)
    IN  <<Sanitize(p.instance), "__", p.owner, "__", p.repo>>

Item(kind, conn, text) == [kind |-> kind, conn |-> conn, text |-> text]

\* the header commands GitlabRepoConfig.copy puts before "git remote add"
GitConfigCommands(tok, tt) ==
    IF tt \in UrlTokenTypes /\ tok # ""
    THEN <<Item("set_header", "&&", SetHeaderCmd(tok))>>
    ELSE <<>>

\* " && ".join(...) of GitlabRepoConfig.copy; the unset entry holds "|| true"
CopyScript(cfg, tok, tt) ==
    << Item("mkdir", "", <<"mkdir ">> \o repo_name(cfg.url)),
       Item("cd", "&&", <<"cd ">> \o repo_name(cfg.url)),
       Item("init", "&&", <<"git init">>) >>
    \o GitConfigCommands(tok, tt)
    \o << Item("remote_add", "&&",
               <<"git remote add origin ">> \o _get_url_with_token(cfg.url, tok, tt)),
          Item("fetch", "&&", <<"git fetch --depth 1 origin ", cfg.base_commit>>),
          Item("checkout", "&&", <<"git checkout FETCH_HEAD">>),
          Item("unset", "&&", <<"git config --global --unset http.extraHeader">>),
          Item("true", "||", <<"true">>),
          Item("cd_up", "&&", <<"cd ..">>) >>

RECURSIVE JoinScript(_, _)
JoinScript(items, i) ==
    IF i > Len(items) THEN <<>>
    ELSE (IF i = 1 THEN <<>> ELSE <<" ", items[i].conn, " ">>)
         \o items[i].text \o JoinScript(items, i + 1)

\* commands of the script that can exit non-zero on their own
Failable == {"mkdir", "init", "set_header", "remote_add", "fetch", "checkout", "cd_up"}

\* the shell runs an AND-OR list left to right: after && the command runs
\* when the status so far is 0, after || when it is not
RECURSIVE RunList(_, _, _, _, _, _)
RunList(items, i, status, hdr, done, failing) ==
    IF i > Len(items) THEN [status |-> status, hdr |-> hdr, ran |-> done]
    ELSE LET it   == items[i]
             runs == \/ i = 1
                     \/ it.conn = "&&" /\ status = 0
                     \/ it.conn = "||" /\ status # 0
             st   == IF it.kind = failing THEN 1
                     ELSE IF it.kind = "unset" /\ hdr = "" THEN 5
                     ELSE 0
             h    == IF it.kind = "set_header" /\ st = 0 THEN "PRIVATE-TOKEN"
                     ELSE IF it.kind = "unset" THEN ""
                     ELSE hdr
         IN  IF runs
             THEN RunList(items, i + 1, st, h, Append(done, it.kind), failing)
             ELSE RunList(items, i + 1, status, hdr, done, failing)

\* ------------------------------------- construction of repo configurations
GhSshUrl == <<"git@github.com:o", "r.git">>
GhHttpUrl == <<"http:", "", "github.com", "o", "r">>
GlSelfHostedUrl == <<"https:", "", "gitlab.example.com", "o", "r">>
OtherHostUrl == <<"https:", "", "bitbucket.org", "o", "r">>
Shorthand == <<"o", "r">>
HttpShorthand == <<"httpie", "cli">>
LocalPath == <<"", "tmp", "r">>

\* first segments on which str.startswith("http") / startswith("git@") hold
HttpPrefixed == {"https:", "http:", "httpie"}
GitAtPrefixed == {"git@gitlab.com:o", "git@github.com:o"}

\* str.count("/") of a text given as its '/'-separated segments
CountSlash(url) == Len(url) - 1

GithubDefaultHost == <<"https:", "", "github.com">>
GitlabDefaultHost == <<"https:", "", "gitlab.com">>

\* GithubRepoConfig.model_post_init
github_model_post_init(github_url) ==
    IF CountSlash(github_url) = 1 THEN GithubDefaultHost \o github_url
    ELSE github_url

\* GitlabRepoConfig.model_post_init without the test for an SSH URL
gitlab_model_post_init_count_only(gitlab_url) ==
    IF CountSlash(gitlab_url) = 1 THEN GitlabDefaultHost \o gitlab_url
    ELSE gitlab_url

\* GitlabRepoConfig.model_post_init
gitlab_model_post_init(gitlab_url) ==
    IF /\ CountSlash(gitlab_url) = 1
       /\ gitlab_url[1] \notin HttpPrefixed
       /\ gitlab_url[1] \notin GitAtPrefixed
    THEN GitlabDefaultHost \o gitlab_url
    ELSE gitlab_url

Config(type, url, base_commit) ==
    [type |-> type, url |-> url, base_commit |-> base_commit]

PreExistingRepoConfig(name, base_commit) == Config("preexisting", name, base_commit)
LocalRepoConfig(path, base_commit) == Config("local", path, base_commit)
GithubRepoConfig(github_url, base_commit) ==
    Config("github", github_model_post_init(github_url), base_commit)
GitlabRepoConfig(gitlab_url, base_commit) ==
    Config("gitlab", gitlab_model_post_init(gitlab_url), base_commit)

\* GITLAB_REPO_URL_PATTERN.search: scheme://host/owner/repo to the end of
\* the text, or git@host:owner/repo
_is_gitlab_repo_url(url) ==
    \/ /\ Len(url) = 5
       /\ url[1] \in {"http:", "https:"}
       /\ url[2] = ""
       /\ url[3] # "" /\ url[4] # "" /\ url[5] # ""
    \/ /\ Len(url) = 2
       /\ url[1] \in GitAtPrefixed
       /\ url[2] # ""

StartsWithHttpsHost(url, host) ==
    Len(url) >= 4 /\ url[1] = "https:" /\ url[2] = "" /\ url[3] = host

\* the branch of type "auto" that tests the GitLab repository pattern last
AutoConfigPrefixOnly(input, base_commit) ==
    IF StartsWithHttpsHost(input, "github.com") \/ input[1] = "git@github.com:o"
    THEN GithubRepoConfig(input, base_commit)
    ELSE IF StartsWithHttpsHost(input, "gitlab.com") \/ input[1] = "git@gitlab.com:o"
    THEN GitlabRepoConfig(input, base_commit)
    ELSE LocalRepoConfig(input, base_commit)

\* the branch of type "auto" of repo_from_simplified_input
AutoConfig(input, base_commit) ==
    IF StartsWithHttpsHost(input, "github.com") \/ input[1] = "git@github.com:o"
    THEN GithubRepoConfig(input, base_commit)
    ELSE IF \/ StartsWithHttpsHost(input, "gitlab.com")
            \/ input[1] = "git@gitlab.com:o"
            \/ _is_gitlab_repo_url(input)
    THEN GitlabRepoConfig(input, base_commit)
    ELSE LocalRepoConfig(input, base_commit)

RepoTypes == {"local", "github", "gitlab", "preexisting", "auto"}

\* what repo_from_simplified_input returns; the type is not validated
\* before the chain of ifs, an unknown one falls through to the raise
repo_from_simplified_input(input, base_commit, type) ==
    CASE type = "local"       -> [raised |-> FALSE, config |-> LocalRepoConfig(input, base_commit)]
      [] type = "github"      -> [raised |-> FALSE, config |-> GithubRepoConfig(input, base_commit)]
      [] type = "gitlab"      -> [raised |-> FALSE, config |-> GitlabRepoConfig(input, base_commit)]
      [] type = "preexisting" -> [raised |-> FALSE, config |-> PreExistingRepoConfig(input, base_commit)]
      [] type = "auto"        -> [raised |-> FALSE, config |-> AutoConfig(input, base_commit)]
      [] OTHER                -> [raised |-> TRUE, config |-> <<>>]

RepoInputs == { Shorthand, HttpShorthand, LocalPath, <<"r">>, GlRepoUrl,
                GlSelfHostedUrl, GlSshUrl, GlUserUrl, GhRepoUrl, GhSshUrl,
                GhHttpUrl, OtherHostUrl }

Untouched == <<op, fn, result, ps, skip, target_branch, dry_run, token, token_type,
               gh_token,
               issue, mrs, commits, verdict, branch_name, originUrl, log, arg>>

\* GitlabRepoConfig.copy: one runtime.execute of the script, check=True
GitlabCopy ==
    /\ op = "copy"
    /\ pc = "call"
    /\ \E failing \in {"none"} \cup Failable :
         LET items == CopyScript(arg, token, token_type)
             r     == RunList(items, 1, 0, extraHeader, <<>>, failing)
         IN  /\ cmds' = Append(cmds, [step |-> "copy", cmd |-> JoinScript(items, 1),
                                      exit |-> r.status])
             /\ ran' = r.ran
             /\ extraHeader' = r.hdr
             /\ outcome' = IF r.status # 0 THEN "raised" ELSE "returned"
             /\ error' = IF r.status # 0 THEN "CommandFailed" ELSE error
    /\ pc' = "done"
    /\ UNCHANGED <<Untouched, http, ret>>

\* get_reset_commands, called twice on one config
GetResetCommands ==
    /\ op = "get_reset_commands"
    /\ pc \in {"call", "again"}
    /\ ret' = get_reset_commands(arg)
    /\ pc' = IF pc = "call" THEN "again" ELSE "done"
    /\ outcome' = "returned"
    /\ UNCHANGED <<Untouched, http, cmds, ran, extraHeader, error>>

\* a request through a verb wrapper of _get_gitlab_api_client
ClientRequest ==
    /\ op = "client"
    /\ pc = "call"
    /\ \E verb \in {"GET", "POST", "PUT", "DELETE"}, failed \in BOOLEAN :
         /\ http' = Append(http, [Request(verb, token, token_type) EXCEPT !.ok = ~failed])
         /\ outcome' = IF failed THEN "raised" ELSE "returned"
         /\ error' = IF failed THEN "HTTPError" ELSE error
    /\ pc' = "done"
    /\ UNCHANGED <<Untouched, cmds, ran, extraHeader, ret>>

\* create_merge_request called with any title
CreateMergeRequest ==
    /\ op = "create_merge_request"
    /\ pc = "call"
    /\ \E k \in 0..2 :
         LET reqs == CreateMrRequests(<<"b">>, "main", arg.title, token, token_type, arg.draft)
         IN  /\ http' = http \o (IF k = 0 THEN reqs ELSE FailAt(reqs, k))
             /\ outcome' = IF k = 0 THEN "returned" ELSE "raised"
             /\ error' = IF k = 0 THEN error ELSE "HTTPError"
    /\ pc' = "done"
    /\ UNCHANGED <<Untouched, cmds, ran, extraHeader, ret>>

\* GithubRepoConfig(...) / GitlabRepoConfig(...), then a config constructed
\* again from the URL the first one stored
ConstructRepoConfig ==
    /\ op = "construct"
    /\ pc \in {"call", "again"}
    /\ LET url == IF pc = "call" THEN arg.input ELSE ret.url
       IN  ret' = IF arg.type = "github" THEN GithubRepoConfig(url, arg.base_commit)
                  ELSE GitlabRepoConfig(url, arg.base_commit)
    /\ pc' = IF pc = "call" THEN "again" ELSE "done"
    /\ outcome' = "returned"
    /\ UNCHANGED <<Untouched, http, cmds, ran, extraHeader, error>>

RepoFromSimplifiedInput ==
    /\ op = "repo_from_simplified_input"
    /\ pc = "call"
    /\ LET r == repo_from_simplified_input(arg.input, arg.base_commit, arg.type)
       IN  /\ ret' = r.config
           /\ outcome' = IF r.raised THEN "raised" ELSE "returned"
           /\ error' = IF r.raised THEN "ValueError" ELSE error
    /\ pc' = "done"
    /\ UNCHANGED <<Untouched, http, cmds, ran, extraHeader>>

IssueUrlInputs ==
    { GlIssueUrl, GlSelfHostedIssueUrl, GlNestedIssueUrl, GlRepoUrl, GlMrUrl,
      GhIssueUrl, <<"not a url">>,
      <<"", "o", "r", "-", "issues", "7">>,
      <<"o", "r", "-", "issues", "7">>,
      <<"https:", "", "gitlab.com", "o", "r", "-", "issues", "x">>,
      <<"https:", "", "gitlab.com", "o", "r", "-", "issues", "7", "designs">> }

\* _parse_gitlab_issue_url called on any text
ParseGitlabIssueUrl ==
    /\ op = "_parse_gitlab_issue_url"
    /\ pc = "call"
    /\ IF \E j \in 1..Len(arg) : IssueMatchAt(arg, j)
       THEN /\ ret' = _parse_gitlab_issue_url(arg)
            /\ outcome' = "returned"
            /\ error' = error
       ELSE /\ ret' = ret
            /\ outcome' = "raised"
            /\ error' = "InvalidGitlabURL"
    /\ pc' = "done"
    /\ UNCHANGED <<Untouched, http, cmds, ran, extraHeader>>

GlGitSuffixUrl == <<"https:", "", "gitlab.com", "o", "r.git">>

\* URLs a GitlabRepoConfig can hold
StoredGitlabUrls ==
    { gitlab_model_post_init(u) :
        u \in (RepoInputs \cup {GlGitSuffixUrl, <<"https:", "", "gitlab.com", "g", "o", "r">>}) }

\* the repo_name property of a GitlabRepoConfig
RepoName ==
    /\ op = "repo_name"
    /\ pc = "call"
    /\ IF _is_gitlab_repo_url(arg.url)
       THEN /\ ret' = repo_name(arg.url)
            /\ outcome' = "returned"
            /\ error' = error
       ELSE /\ ret' = ret
            /\ outcome' = "raised"
            /\ error' = "InvalidGitlabURL"
    /\ pc' = "done"
    /\ UNCHANGED <<Untouched, http, cmds, ran, extraHeader>>

\* _get_url_with_token of a GitlabRepoConfig called with any token and type
GetUrlWithToken ==
    /\ op = "_get_url_with_token"
    /\ pc = "call"
    /\ ret' = _get_url_with_token(arg.url, token, token_type)
    /\ outcome' = "returned"
    /\ pc' = "done"
    /\ UNCHANGED <<Untouched, http, cmds, ran, extraHeader, error>>

\* ------------------------------------------------ trajectory formatting
\* A text is the sequence of its lines (str.splitlines), a line the sequence
\* of its tokens; Fence is a run of three backticks, " " a run of blanks.
Fence == "<three backticks>"

ResponseTexts ==
    { <<>>,
      << <<"x">> >>,
      << <<"x">>, <<Fence, "py">>, <<"x">>, <<Fence>> >> }

ObservationTexts ==
    { <<>>,
      << <<"x">> >>,
      << <<Fence>>, <<"x">>, <<Fence>> >>,
      << <<Fence, Fence>>, <<"x">> >>,
      << <<" ", Fence>>, <<"x">> >>,
      << <<"x">>, <<" ", Fence>>, <<" ">> >> }

TrajectorySteps == [response : ResponseTexts, observation : ObservationTexts]

Trajectories ==
    UNION { [1..n -> TrajectorySteps] : n \in 0..MaxTrajectory }

\* str.removeprefix of three backticks on a line
RemovePrefix(line) ==
    IF line # <<>> /\ Head(line) = Fence THEN Tail(line) ELSE line

_remove_triple_backticks(text) == [k \in 1..Len(text) |-> RemovePrefix(text[k])]

IsBlank(line) == \A k \in 1..Len(line) : line[k] = " "

RECURSIVE LStripLine(_)
LStripLine(line) ==
    IF line # <<>> /\ Head(line) = " " THEN LStripLine(Tail(line)) ELSE line

RECURSIVE RStripLine(_)
RStripLine(line) ==
    IF line # <<>> /\ line[Len(line)] = " "
    THEN RStripLine(SubSeq(line, 1, Len(line) - 1)) ELSE line

\* str.strip() of a text: blank lines and blanks at both ends go
RECURSIVE Strip(_)
Strip(text) ==
    IF text = <<>> THEN <<>>
    ELSE IF IsBlank(Head(text)) THEN Strip(Tail(text))
    ELSE IF IsBlank(text[Len(text)]) THEN Strip(SubSeq(text, 1, Len(text) - 1))
    ELSE IF Len(text) = 1 THEN <<RStripLine(LStripLine(text[1]))>>
    ELSE <<LStripLine(text[1])>> \o SubSeq(text, 2, Len(text) - 1)
         \o <<RStripLine(text[Len(text)])>>

\* the lines an element of step_strs contributes: an empty text is one empty line
AsLines(text) == IF text = <<>> THEN << <<>> >> ELSE text

\* a line of the result: by is "formatter" for a line the function writes
\* itself and "step" for a line taken from the trajectory
OutLine(by, toks) == [by |-> by, toks |-> toks]

FromStep(text) == [k \in 1..Len(text) |-> OutLine("step", text[k])]

\* "\n".join(step_strs) of step i
StepStrs(i, step) ==
    << OutLine("formatter", <<"**Response (", ToString(i), ")**: ">>) >>
    \o FromStep(AsLines(Strip(step.response)))
    \o << OutLine("formatter", <<"**Observation (", ToString(i), ")**:">>),
          OutLine("formatter", <<Fence>>) >>
    \o FromStep(AsLines(Strip(_remove_triple_backticks(step.observation))))
    \o << OutLine("formatter", <<Fence>>) >>

\* "\n\n---\n\n".join(steps) from step k on (k counts from 1, enumerate from 0)
RECURSIVE JoinSteps(_, _)
JoinSteps(trajectory, k) ==
    IF k > Len(trajectory) THEN <<>>
    ELSE (IF k = 1 THEN <<>>
          ELSE << OutLine("formatter", <<>>), OutLine("formatter", <<"---">>),
                  OutLine("formatter", <<>>) >>)
         \o StepStrs(k - 1, trajectory[k]) \o JoinSteps(trajectory, k + 1)

\* the last "" of prefix and the "" of suffix are on the line of the text next
\* to them; with no step they form one empty line
format_trajectory_markdown(trajectory) ==
    << OutLine("formatter", <<"<details>">>),
       OutLine("formatter", <<"<summary>Thought process ('trajectory') of SWE-agent (click to expand)</summary>">>),
       OutLine("formatter", <<>>) >>
    \o (IF trajectory = <<>> THEN << OutLine("formatter", <<>>) >>
        ELSE JoinSteps(trajectory, 1))
    \o << OutLine("formatter", <<"</details>">>) >>

FormatTrajectoryMarkdown ==
    /\ op = "format_trajectory_markdown"
    /\ pc = "call"
    /\ ret' = format_trajectory_markdown(arg)
    /\ outcome' = "returned"
    /\ pc' = "done"
    /\ UNCHANGED <<Untouched, http, cmds, ran, extraHeader, error>>

LookupMergeRequests ==
    MergeRequests \cup { [verb |-> "Fixes", num |-> "1", ncommits |-> 2],
                         [verb |-> "fixes", num |-> "7", ncommits |-> 1] }

LookupMRLists == UNION { [1..n -> LookupMergeRequests] : n \in 0..MaxLookupMRs }

\* _get_associated_commit_urls called on its own; k is the request that fails
GetAssociatedCommitUrls ==
    /\ op = "_get_associated_commit_urls"
    /\ pc = "call"
    /\ LET reqs == AssociatedRequests(arg.mrs, arg.issue_number, token, token_type)
       IN  \E k \in 0..Len(reqs) :
             IF k = 0
             THEN /\ http' = http \o reqs
                  /\ ret' = _get_associated_commit_urls(arg.mrs, arg.issue_number)
                  /\ outcome' = "returned"
                  /\ error' = error
             ELSE /\ http' = http \o FailAt(reqs, k)
                  /\ ret' = ret
                  /\ outcome' = "raised"
                  /\ error' = "HTTPError"
    /\ pc' = "done"
    /\ UNCHANGED <<Untouched, cmds, ran, extraHeader>>

\* --------------------------------------------------- LocalRepoConfig.copy
\* the local checkout and the environment LocalRepoConfig.copy runs in
LocalCopyArgs ==
    [type : {"local"}, url : {LocalPath}, base_commit : {"HEAD"},
     is_git_repo : BOOLEAN, is_dirty : BOOLEAN, pytest_current_test : BOOLEAN]

\* Path(path).resolve().name with blanks and quotes replaced
local_repo_name(path) == path[Len(path)]

\* a validation that does not look at the working tree
check_valid_repo_any_tree(a) ==
    IF ~a.is_git_repo THEN "ValueError" ELSE "ok"

\* LocalRepoConfig.check_valid_repo: "ok" or the exception it raises
check_valid_repo(a) ==
    IF ~a.is_git_repo THEN "ValueError"
    ELSE IF a.is_dirty /\ ~a.pytest_current_test THEN "ValueError"
    ELSE "ok"

LocalCheckValidRepo ==
    /\ op = "local_copy"
    /\ pc = "call"
    /\ IF check_valid_repo(arg) = "ok"
       THEN pc' = "upload" /\ UNCHANGED <<outcome, error>>
       ELSE pc' = "done" /\ outcome' = "raised" /\ error' = check_valid_repo(arg)
    /\ UNCHANGED <<Untouched, http, cmds, ran, extraHeader, ret>>

\* deployment.runtime.upload(source_path=path, target_path="/<repo_name>")
LocalUpload ==
    /\ op = "local_copy"
    /\ pc = "upload"
    /\ \E ok \in BOOLEAN :
         /\ cmds' = Append(cmds, [step |-> "upload",
                                  cmd |-> SlashJoin(arg.url) \o <<" -> /", local_repo_name(arg.url)>>,
                                  exit |-> IF ok THEN 0 ELSE 1])
         /\ IF ok
            THEN pc' = "chown" /\ UNCHANGED <<outcome, error>>
            ELSE pc' = "done" /\ outcome' = "raised" /\ error' = "UploadFailed"
    /\ UNCHANGED <<Untouched, http, ran, extraHeader, ret>>

\* chown -R root:root <repo_name>, then the test of r.exit_code
LocalChown ==
    /\ op = "local_copy"
    /\ pc = "chown"
    /\ \E code \in {0, 1} :
         /\ cmds' = Append(cmds, [step |-> "chown",
                                  cmd |-> <<"chown -R root:root ", local_repo_name(arg.url)>>,
                                  exit |-> code])
         /\ outcome' = IF code # 0 THEN "raised" ELSE "returned"
         /\ error' = IF code # 0 THEN "RuntimeError" ELSE error
    /\ pc' = "done"
    /\ UNCHANGED <<Untouched, http, ran, extraHeader, ret>>

\* ------------------------------------------------- problem statements
ProblemInputs ==
    { <<"fix the bug">>, <<"", "tmp", "issue.md">>, GhIssueUrl, GlIssueUrl, GlRepoUrl }

ProblemTypes == {"text", "text_file", "github_issue", "ctf_json"}

ProblemStatementOf(type, value) == [type |-> type, value |-> value]

Returned(v) == [raised |-> FALSE, error |-> "", value |-> v]
Raised(e) == [raised |-> TRUE, error |-> e, value |-> <<>>]

\* what problem_statement_from_simplified_input returns or raises; readable
\* says whether Path(input).read_text() succeeds (FileProblemStatement and
\* CTFProblemStatement read the file in model_post_init, GithubIssue parses
\* its URL there)
problem_statement_from_simplified_input(input, type, readable) ==
    CASE type = "text" -> Returned(ProblemStatementOf("text", input))
      [] type = "text_file" ->
             IF readable THEN Returned(ProblemStatementOf("text_file", input))
             ELSE Raised("FileNotFoundError")
      [] type = "github_issue" ->
             IF _is_github_issue_url(input)
             THEN Returned(ProblemStatementOf("github", input))
             ELSE Raised("InvalidGithubURL")
      [] type = "ctf_json" ->
             IF readable THEN Returned(ProblemStatementOf("ctf_json", input))
             ELSE Raised("FileNotFoundError")
      [] OTHER -> Raised("ValueError")

ProblemStatementFromSimplifiedInput ==
    /\ op = "problem_statement_from_simplified_input"
    /\ pc = "call"
    /\ LET r == problem_statement_from_simplified_input(arg.input, arg.type, arg.readable)
       IN  /\ ret' = r.value
           /\ outcome' = IF r.raised THEN "raised" ELSE "returned"
           /\ error' = IF r.raised THEN r.error ELSE error
    /\ pc' = "done"
    /\ UNCHANGED <<Untouched, http, cmds, ran, extraHeader>>

\* ------------------------------------- construction of problem statements
\* hashlib.sha256(text.encode()).hexdigest(), one token per hex digit, on the
\* texts of the model
Sha256Hex(text) ==
    CASE text = "fix the bug" ->
             << "2", "8", "0", "f", "d", "7", "e", "3", "5", "7", "1", "b", "7", "c", "8", "5",
                "0", "d", "6", "f", "e", "7", "7", "1", "a", "e", "e", "9", "6", "d", "b", "0",
                "c", "c", "d", "e", "e", "f", "4", "7", "9", "1", "0", "4", "1", "4", "e", "3",
                "a", "4", "a", "9", "3", "b", "b", "0", "6", "e", "a", "9", "f", "7", "c", "2" >>
      [] text = "Fix the bug" ->
             << "d", "a", "c", "8", "9", "3", "7", "f", "0", "1", "d", "0", "a", "c", "0", "8",
                "f", "8", "5", "6", "a", "d", "9", "7", "4", "6", "b", "d", "c", "5", "0", "4",
                "f", "b", "e", "2", "a", "7", "6", "8", "9", "e", "9", "3", "a", "3", "9", "2",
                "b", "4", "c", "a", "8", "6", "8", "f", "f", "2", "a", "5", "e", "e", "e", "3" >>
      [] text = "" ->
             << "e", "3", "b", "0", "c", "4", "4", "2", "9", "8", "f", "c", "1", "c", "1", "4",
                "9", "a", "f", "b", "f", "4", "c", "8", "9", "9", "6", "f", "b", "9", "2", "4",
                "2", "7", "a", "e", "4", "1", "e", "4", "6", "4", "9", "b", "9", "3", "4", "c",
                "a", "4", "9", "5", "9", "9", "1", "b", "7", "8", "5", "2", "b", "8", "5", "5" >>
      [] OTHER -> <<>>

PayloadTexts == {"fix the bug", "Fix the bug", ""}

Uuids == {"uuid-a", "uuid-b"}

CtfFields == {"name", "category", "files", "description", "flag"}
CtfCategories == {"crypto", "rev", "web", "forensics", "pwn", "misc"}

\* the id argument of a constructor: left out, or given
NoId == [given |-> FALSE, value |-> <<>>]
IdArgs == {NoId, [given |-> TRUE, value |-> <<>>], [given |-> TRUE, value |-> <<"my-id">>]}

\* a JSON descriptor: the keys it holds, and its name and category
CtfDescriptors ==
    [fields : {CtfFields} \cup {CtfFields \ {f} : f \in CtfFields},
     name : {"rsa"}, category : {"crypto", "stego"}]

ProblemArgs ==
    [variant : {"empty"}, payload : {""}, id : {NoId, [given |-> TRUE, value |-> <<"my-id">>]},
     readable : {TRUE}]
    \cup [variant : {"text"}, payload : PayloadTexts, id : IdArgs, readable : {TRUE}]
    \cup [variant : {"text_file"}, payload : PayloadTexts, id : IdArgs, readable : BOOLEAN]
    \cup [variant : {"github"}, payload : {GhIssueUrl, GlIssueUrl}, id : IdArgs,
          readable : {TRUE}]
    \cup [variant : {"ctf_json"}, payload : CtfDescriptors, id : IdArgs, readable : BOOLEAN]

Instance(type, id, category) == [type |-> type, id |-> id, category |-> category]

\* hashlib.sha256(...).hexdigest()[:6]
HashId(text) == SubSeq(Sha256Hex(text), 1, 6)

\* a model_post_init that sets the id whether or not one was given
TextPostInitAlways(a) == Returned(Instance("text", HashId(a.payload), ""))

\* TextProblemStatement.model_post_init
TextPostInit(a) ==
    Returned(Instance("text", IF a.id.given THEN a.id.value ELSE HashId(a.payload), ""))

\* FileProblemStatement.model_post_init: the file is read only for the id
FilePostInit(a) ==
    IF a.id.given THEN Returned(Instance("text_file", a.id.value, ""))
    ELSE IF ~a.readable THEN Raised("FileNotFoundError")
    ELSE Returned(Instance("text_file", HashId(a.payload), ""))

\* an id without the issue number
GithubIssuePostInitNoNumber(a) ==
    IF a.id.given THEN Returned(Instance("github", a.id.value, ""))
    ELSE IF ~_is_github_issue_url(a.payload) THEN Raised("InvalidGithubURL")
    ELSE LET u == _parse_gh_issue_url(a.payload)
         IN  Returned(Instance("github", <<u.owner, "__", u.repo>>, ""))

\* GithubIssue.model_post_init
GithubIssuePostInit(a) ==
    IF a.id.given THEN Returned(Instance("github", a.id.value, ""))
    ELSE IF ~_is_github_issue_url(a.payload) THEN Raised("InvalidGithubURL")
    ELSE LET u == _parse_gh_issue_url(a.payload)
         IN  Returned(Instance("github", <<u.owner, "__", u.repo, "-i", u.number>>, ""))

\* CTFProblemStatement.model_post_init: model_dict[...] raises KeyError for a
\* missing key; the fields are assigned without validation and
\* model_validate(self) takes the instance as it is
CtfPostInit(a) ==
    IF ~a.readable THEN Raised("FileNotFoundError")
    ELSE IF a.payload.fields # CtfFields THEN Raised("KeyError")
    ELSE Returned(Instance("ctf_json",
                           IF a.id.given THEN a.id.value
                           ELSE <<a.payload.category, "_", a.payload.name>>,
                           a.payload.category))

\* EmptyProblemStatement: default_factory=lambda: str(uuid.uuid4())
EmptyInit(a, u) ==
    Returned(Instance("empty", IF a.id.given THEN a.id.value ELSE <<u>>, ""))

\* a problem statement constructed twice from the same arguments
ConstructProblemStatement ==
    /\ op = "problem_statement"
    /\ pc \in {"call", "again"}
    /\ \E u \in Uuids :
         LET r == CASE arg.variant = "empty"     -> EmptyInit(arg, u)
                    [] arg.variant = "text"      -> TextPostInit(arg)
                    [] arg.variant = "text_file" -> FilePostInit(arg)
                    [] arg.variant = "github"    -> GithubIssuePostInit(arg)
                    [] arg.variant = "ctf_json"  -> CtfPostInit(arg)
         IN  IF r.raised
             THEN /\ ret' = ret
                  /\ outcome' = "raised"
                  /\ error' = r.error
                  /\ pc' = "done"
             ELSE /\ ret' = Append(ret, r.value)
                  /\ outcome' = "returned"
                  /\ error' = error
                  /\ pc' = IF pc = "call" THEN "again" ELSE "done"
    /\ UNCHANGED <<Untouched, http, cmds, ran, extraHeader>>

ClientTokenTypes == TokenTypes \cup {"oauth2", "Project", "OAuth"}

MrTitles ==
    { <<"x">>, <<"Draft: ", "x">>, <<"WIP: ", "x">>, <<"Draft:", "x">>,
      <<"draft: ", "x">>, <<"", "Draft: ", "x">>, <<"x", "Draft: ">>, <<>> }

\* a function called on its own
InitCall ==
    /\ pc = "call"
    /\ fn = "none"
    /\ result = [submission |-> TRUE, exit_status |-> "submitted"]
    /\ ps = [attr |-> "none", url |-> <<>>]
    /\ skip = TRUE
    /\ target_branch = "main"
    /\ dry_run = FALSE
    /\ gh_token = ""
    /\ token \in Tokens
    /\ \/ op = "copy" /\ token_type \in TokenTypes /\ arg \in {c \in RepoConfigs : c.type = "gitlab"}
       \/ op = "get_reset_commands" /\ token_type = "oauth" /\ arg \in RepoConfigs
       \/ op = "client" /\ token_type \in ClientTokenTypes /\ arg = <<>>
       \/ op = "_parse_gitlab_issue_url" /\ token_type = "oauth" /\ arg \in IssueUrlInputs
       \/ /\ op = "repo_name"
          /\ token_type = "oauth"
          /\ arg \in [type : {"gitlab"}, url : StoredGitlabUrls, base_commit : BaseCommits]
       \/ /\ op = "_get_url_with_token"
          /\ token_type \in TokenTypes \cup {"Project", "OAuth"}
          /\ arg \in [type : {"gitlab"}, url : StoredGitlabUrls, base_commit : {"HEAD"}]
       \/ op = "format_trajectory_markdown" /\ token_type = "oauth" /\ arg \in Trajectories
       \/ /\ op = "_get_associated_commit_urls"
          /\ token_type \in {"oauth", "project"}
          /\ arg \in [mrs : LookupMRLists, issue_number : {"1", "7"}]
       \/ op = "local_copy" /\ token_type = "oauth" /\ arg \in LocalCopyArgs
       \/ /\ op = "problem_statement_from_simplified_input"
          /\ token_type = "oauth"
          /\ arg \in [input : ProblemInputs,
                      type : ProblemTypes \cup {"gitlab_issue", "issue", "empty"},
                      readable : BOOLEAN]
       \/ op = "problem_statement" /\ token_type = "oauth" /\ arg \in ProblemArgs
       \/ /\ op = "construct"
          /\ token_type = "oauth"
          /\ arg \in [type : {"github", "gitlab"}, input : RepoInputs \ {<<"r">>},
                      base_commit : BaseCommits]
       \/ /\ op = "repo_from_simplified_input"
          /\ token_type = "oauth"
          /\ arg \in [type : RepoTypes \cup {"svn"}, input : RepoInputs,
                      base_commit : BaseCommits]
       \/ /\ op = "create_merge_request"
          /\ token_type \in TokenTypes
          /\ arg \in [title : MrTitles, draft : BOOLEAN]
    /\ InitSandbox

Init == InitHook \/ InitDirect \/ InitCall

Next ==
    \/ ShouldOpenMR
    \/ ShouldOpenPR
    \/ FetchIssue
    \/ SetGitUser
    \/ RemovePatch
    \/ CheckoutBranch
    \/ GitAdd
    \/ GitCommit
    \/ SetExtraHeader
    \/ SetRemoteUrl
    \/ GitPush
    \/ UnsetExtraHeader
    \/ CreateRequest
    \/ GitlabCopy
    \/ GetResetCommands
    \/ ClientRequest
    \/ CreateMergeRequest
    \/ ConstructRepoConfig
    \/ RepoFromSimplifiedInput
    \/ ParseGitlabIssueUrl
    \/ RepoName
    \/ GetUrlWithToken
    \/ FormatTrajectoryMarkdown
    \/ GetAssociatedCommitUrls
    \/ LocalCheckValidRepo
    \/ LocalUpload
    \/ LocalChown
    \/ ProblemStatementFromSimplifiedInput
    \/ ConstructProblemStatement

Spec == Init /\ [][Next]_vars


\* ================================================================ claims
Hooks == {"OpenMRHook", "OpenPRHook"}

Contains(s, tok) == \E i \in 1..Len(s) : s[i] = tok

HeaderNames(hs) == {h[1] : h \in hs}

CreateKinds == {"create_mr", "gh_create_pr"}

\* the state value that means "open" on the provider the guard asked
OpenStateOf ==
    IF op = "OpenPRHook" /\ _is_github_issue_url(ps.url) THEN "open" ELSE "opened"

IssueIsFree == issue.state = OpenStateOf /\ ~issue.assignee /\ ~issue.locked

\* C1: once a hook's guard has fetched an issue and answered, the answer is
\* false if the issue is not open, is assigned, is locked, or has associated
\* commits while skip_if_commits_reference_issue is set; it is true for an
\* open, unassigned, unlocked issue without associated commits, and also with
\* associated commits when skip_if_commits_reference_issue is not set.
C1_GuardVerdict ==
    (op \in Hooks /\ verdict # "none" /\ issue # NoIssue) =>
        /\ (issue.state # OpenStateOf \/ issue.assignee \/ issue.locked
              \/ (commits # <<>> /\ skip)) => verdict = "false"
        /\ (result.submission /\ result.exit_status = "submitted"
              /\ IssueIsFree /\ commits = <<>>) => verdict = "true"
        /\ (IssueIsFree /\ ~skip) => verdict = "true"

C1_Witness ==
    /\ op \in Hooks
    /\ verdict = "true"
    /\ commits # <<>>
    /\ ~skip
    /\ IssueIsFree

IsPushCmd(c) == Contains(c.cmd, " git push ")

IsRealPush(c) == IsPushCmd(c) /\ ~StartsWith(c.cmd, "echo ")

SentStep(step) == \E i \in 1..Len(cmds) : cmds[i].step = step

\* C2: with _dry_run set, no command sent to the sandbox is a real git push
\* and no create pull/merge request is sent; a dry run that returns has sent
\* the set-identity, remove-patch, checkout -b, add and commit commands, the
\* commit with --allow-empty, and its push command begins with "echo ".
C2_DryRun ==
    dry_run =>
        /\ \A i \in 1..Len(cmds) : ~IsRealPush(cmds[i])
        /\ \A i \in 1..Len(http) : http[i].req \notin CreateKinds
        /\ outcome = "returned" =>
             /\ \E i \in 1..Len(cmds) : cmds[i].cmd = SetUserCmd
             /\ \E i \in 1..Len(cmds) : cmds[i].cmd = RmPatchCmd
             /\ \E i \in 1..Len(cmds) : cmds[i].cmd = CheckoutCmd(branch_name)
             /\ \E i \in 1..Len(cmds) : cmds[i].cmd = AddCmd
             /\ \E i \in 1..Len(cmds) :
                  /\ StartsWith(cmds[i].cmd, "git commit -m ")
                  /\ Contains(cmds[i].cmd, "--allow-empty")
             /\ \E i \in 1..Len(cmds) :
                  IsPushCmd(cmds[i]) /\ StartsWith(cmds[i].cmd, "echo ")

C2_Witness ==
    /\ dry_run
    /\ fn = "open_gitlab_mr"
    /\ token # ""
    /\ outcome = "returned"
    /\ SentStep("push")

GitSteps == {"set_user", "rm_patch", "checkout", "add", "commit", "set_url", "push"}

C4_CreateFailureSwallowed ==
    (op \in Hooks /\ SentStep("push") /\ http # <<>> /\ ~http[Len(http)].ok) =>
        /\ outcome = "returned"
        /\ log # <<>>

\* C5: a hook given a result without submission, or with an exit status other
\* than "submitted", sends no REST request and no sandbox command; its guard
\* answers false and the publication is not started.
C5_NoSubmissionNoEffect ==
    (op \in Hooks /\ (~result.submission \/ result.exit_status # "submitted")) =>
        /\ http = <<>>
        /\ cmds = <<>>
        /\ fn = "none"
        /\ pc \in {"guard", "done"}
        /\ pc = "done" => (verdict = "false" /\ outcome = "returned")

C5_Witness ==
    /\ op \in Hooks
    /\ pc = "done"
    /\ result.submission
    /\ result.exit_status # "submitted"
    /\ ps.attr = "gitlab_url"
    /\ _is_gitlab_issue_url(ps.url)

IsDraftTitle(t) == StartsWith(t, "Draft: ") \/ StartsWith(t, "WIP: ")

\* C6: every create request of a publication is a draft (draft=True on
\* GitHub, a title beginning with "Draft: " on GitLab); create_merge_request
\* with draft=True posts a title that begins with "Draft: " or "WIP: ", which
\* is the given title when that already begins so and "Draft: " plus the
\* given title otherwise.
C6_AlwaysDraft ==
    \A i \in 1..Len(http) :
        /\ http[i].req = "gh_create_pr" => http[i].draft
        /\ (http[i].req = "create_mr" /\ fn # "none") =>
               /\ http[i].draft
               /\ http[i].title = <<"Draft: ", "SWE-agent[bot] MR to fix: ">> \o issue.title
        /\ (http[i].req = "create_mr" /\ http[i].draft) => IsDraftTitle(http[i].title)
        /\ (http[i].req = "create_mr" /\ op = "create_merge_request" /\ arg.draft) =>
               http[i].title = IF IsDraftTitle(arg.title) THEN arg.title
                               ELSE <<"Draft: ">> \o arg.title

C6_Witness ==
    /\ op = "create_merge_request"
    /\ arg.draft
    /\ StartsWith(arg.title, "WIP: ")
    /\ \E i \in 1..Len(http) : http[i].req = "create_mr"

\* the operation has put the PRIVATE-TOKEN header into the global git config
SetsHeader ==
    \/ \E i \in 1..Len(cmds) : cmds[i].step = "set_header" /\ cmds[i].exit = 0
    \/ \E i \in 1..Len(ran) : ran[i] = "set_header"

\* C7: an operation that has set the global http.extraHeader and has returned
\* normally leaves no http.extraHeader set.
C7_HeaderUnset ==
    (outcome = "returned" /\ SetsHeader) => extraHeader = ""

Pos(s, tok) ==
    IF Contains(s, tok) THEN CHOOSE i \in 1..Len(s) :
                                 s[i] = tok /\ \A j \in 1..(i - 1) : s[j] # tok
    ELSE 0

\* C8: the script of GitlabRepoConfig.copy, given a token and an https URL
\* without credentials, embeds the credentials in the remote URL for token
\* type oauth and sets the PRIVATE-TOKEN header before the fetch for token
\* types private, personal, project and group.
C8_CopyAuth ==
    (op = "copy" /\ pc = "done" /\ token # "" /\ ~HasAt(arg.url)) =>
        LET text == cmds[1].cmd
        IN  /\ token_type = "oauth" => Contains(text, "https://oauth2:")
            /\ token_type \in PrivateTokenTypes =>
                 /\ Pos(text, "git config --global http.extraHeader 'PRIVATE-TOKEN: ") > 0
                 /\ Pos(text, "git config --global http.extraHeader 'PRIVATE-TOKEN: ")
                      < Pos(text, "git fetch --depth 1 origin ")

\* C9: a request of the client carries exactly Authorization: Bearer <token>
\* for token type oauth, exactly PRIVATE-TOKEN: <token> for private, personal,
\* project and group, no header for an empty token, and never both headers.
C9_ClientAuth ==
    /\ op = "client" =>
         \A i \in 1..Len(http) :
             /\ (token # "" /\ Lower(token_type) = "oauth") =>
                    http[i].auth = {<<"Authorization", <<"Bearer ", token>> >>}
             /\ (token # "" /\ Lower(token_type) \in PrivateTokenTypes) =>
                    http[i].auth = {<<"PRIVATE-TOKEN", <<token>> >>}
             /\ token = "" => http[i].auth = {}
    /\ \A i \in 1..Len(http) :
         ~({"Authorization", "PRIVATE-TOKEN"} \subseteq HeaderNames(http[i].auth))

C9_Witness ==
    /\ op = "client"
    /\ token # ""
    /\ token_type = "group"
    /\ http # <<>>

\* C10: get_reset_commands of any repo config returns git status, git restore .,
\* git reset --hard <base_commit> and git clean -fdq, in this order, on the
\* first call and on a repeated call.
C10_ResetCommands ==
    (op = "get_reset_commands" /\ pc # "call") =>
        ret = << <<"git status">>, <<"git restore .">>,
                 <<"git reset --hard ", arg.base_commit>>, <<"git clean -fdq">> >>

C10_Witness ==
    /\ op = "get_reset_commands"
    /\ pc = "done"
    /\ arg.type = "gitlab"
    /\ arg.base_commit = "abc123"

IsFullUrl(u) ==
    \/ Len(u) >= 5 /\ u[1] \in {"http:", "https:"} /\ u[2] = ""
    \/ Len(u) = 2 /\ u[1] \in {"git@gitlab.com:o", "git@github.com:o"}

IsShorthand(u) == Len(u) = 2 /\ ~IsFullUrl(u)

DefaultHostOf(type) ==
    IF type = "github" THEN <<"https:", "", "github.com">>
    ELSE <<"https:", "", "gitlab.com">>

\* C11: a GithubRepoConfig or GitlabRepoConfig constructed from an owner/repo
\* shorthand stores the provider's default host followed by the shorthand, one
\* constructed from a full URL (https or SSH form) stores it unchanged, and a
\* config constructed again from the stored URL stores the same URL.
C11_Normalization ==
    (op = "construct" /\ pc \in {"again", "done"}) =>
        /\ IsShorthand(arg.input) => ret.url = DefaultHostOf(arg.type) \o arg.input
        /\ IsFullUrl(arg.input) => ret.url = arg.input

IsGithubInput(u) ==
    \/ Len(u) >= 4 /\ u[1] = "https:" /\ u[2] = "" /\ u[3] = "github.com"
    \/ u[1] = "git@github.com:o"

GitlabHosts == {"gitlab.com", "gitlab.example.com", "user@gitlab.com"}

\* a URL of gitlab.com, a repository URL of a GitLab instance, or git@gitlab.com
IsGitlabInput(u) ==
    \/ Len(u) >= 4 /\ u[1] = "https:" /\ u[2] = "" /\ u[3] = "gitlab.com"
    \/ Len(u) = 5 /\ u[1] \in {"http:", "https:"} /\ u[2] = "" /\ u[3] \in GitlabHosts
    \/ u[1] = "git@gitlab.com:o"

\* scheme://host/owner/repo or git@host:owner/repo, whatever the host
HasRepoUrlShape(u) ==
    \/ Len(u) = 5 /\ u[1] \in {"http:", "https:"} /\ u[2] = ""
    \/ Len(u) = 2 /\ u[1] \in {"git@gitlab.com:o", "git@github.com:o"}

ExplicitOrRaise(auto_type) ==
    (op = "repo_from_simplified_input" /\ pc = "done") =>
        IF arg.type \in {"local", "github", "gitlab", "preexisting"}
        THEN outcome = "returned" /\ ret.type = arg.type
                                  /\ ret.base_commit = arg.base_commit
        ELSE IF arg.type = "auto"
        THEN outcome = "returned" /\ ret.type = auto_type
                                  /\ ret.base_commit = arg.base_commit
        ELSE outcome = "raised" /\ error = "ValueError"

\* C13 as stated: repo_from_simplified_input returns the variant of an explicit
\* type and raises ValueError for an unknown one; with type auto it returns a
\* GitlabRepoConfig for GitLab URLs, a GithubRepoConfig for https://github.com/
\* and git@github.com inputs and a LocalRepoConfig for every other input; the
\* base_commit is carried into the config.
C13_DispatchAsStated ==
    ExplicitOrRaise(IF IsGithubInput(arg.input) THEN "github"
                    ELSE IF IsGitlabInput(arg.input) THEN "gitlab"
                    ELSE "local")

\* C13: as above, except that with type auto every input that is not a GitHub
\* input and has the shape scheme://host/owner/repo or git@host:owner/repo
\* yields a GitlabRepoConfig, whatever its host, and only the remaining inputs
\* yield a LocalRepoConfig.
C13_Dispatch ==
    ExplicitOrRaise(IF IsGithubInput(arg.input) THEN "github"
                    ELSE IF IsGitlabInput(arg.input) \/ HasRepoUrlShape(arg.input)
                    THEN "gitlab"
                    ELSE "local")

C13_Witness ==
    /\ op = "repo_from_simplified_input"
    /\ pc = "done"
    /\ arg.type = "auto"
    /\ arg.input = <<"https:", "", "gitlab.example.com", "o", "r">>
    /\ arg.base_commit = "abc123"
    /\ ret.type = "gitlab"
    /\ ret.base_commit = "abc123"

\* scheme://host/owner/repo/-/issues/n
IsPlainIssueUrl(u) ==
    /\ Len(u) = 8
    /\ u[1] \in {"http:", "https:"}
    /\ u[2] = ""
    /\ u[3] # "" /\ u[4] # "" /\ u[5] # ""
    /\ u[6] = "-"
    /\ u[7] = "issues"
    /\ u[8] \in {"1", "7", "12"}

NotIssueUrls ==
    { <<"https:", "", "gitlab.com", "o", "r">>,
      <<"https:", "", "gitlab.com", "o", "r", "-", "merge_requests", "7">>,
      <<"https:", "", "github.com", "o", "r", "issues", "1">>,
      <<"not a url">> }

\* C12: _parse_gitlab_issue_url returns (scheme://host, owner, repo, number)
\* for scheme://host/owner/repo/-/issues/n and raises InvalidGitlabURL exactly
\* for the inputs _is_gitlab_issue_url rejects, among them repository URLs,
\* merge-request URLs, GitHub issue URLs and non-URLs.
C12_ParseIssueUrl ==
    (op = "_parse_gitlab_issue_url" /\ pc = "done") =>
        /\ IsPlainIssueUrl(arg) =>
             /\ outcome = "returned"
             /\ ret = [instance |-> SubSeq(arg, 1, 3), owner |-> arg[4],
                       repo |-> arg[5], number |-> arg[8]]
        /\ (outcome = "raised") <=> ~_is_gitlab_issue_url(arg)
        /\ outcome = "raised" => error = "InvalidGitlabURL"
        /\ arg \in NotIssueUrls => outcome = "raised"

C12_Witness ==
    /\ op = "_parse_gitlab_issue_url"
    /\ pc = "done"
    /\ arg = <<"https:", "", "gitlab.example.com", "o", "r", "-", "issues", "12">>
    /\ outcome = "returned"
    /\ ret.instance = <<"https:", "", "gitlab.example.com">>
    /\ ret.number = "12"

\* the expected name of the repositories the claim names
NameOf(url) ==
    CASE url \in { <<"https:", "", "gitlab.com", "o", "r">>,
                   <<"https:", "", "gitlab.com", "o", "r.git">>,
                   <<"git@gitlab.com:o", "r.git">> }
             -> <<"gitlab_com", "__", "o", "__", "r">>
      [] url = <<"https:", "", "gitlab.example.com", "o", "r">>
             -> <<"gitlab_example_com", "__", "o", "__", "r">>
      [] OTHER -> <<>>

\* C14: repo_name of a GitlabRepoConfig is <instance>__<owner>__<repo>, the
\* instance being the host with its dots replaced by underscores, and the
\* https URL, the URL with a .git suffix and the SSH form of one repository
\* have the same repo_name.
C14_RepoName ==
    (op = "repo_name" /\ pc = "done" /\ NameOf(arg.url) # <<>>) =>
        outcome = "returned" /\ ret = NameOf(arg.url)

C14_Witness ==
    /\ op = "repo_name"
    /\ pc = "done"
    /\ arg.url = <<"https:", "", "gitlab.com", "o", "r.git">>
    /\ ret = <<"gitlab_com", "__", "o", "__", "r">>

HasScheme(u) == Len(u) >= 3 /\ u[1] \in {"http:", "https:"} /\ u[2] = ""

HoldsAt(u) ==
    \E i \in 1..Len(u) : u[i] \in {"git@gitlab.com:o", "git@github.com:o", "user@gitlab.com"}

\* the text of a URL from its segments
RECURSIVE TextOf(_)
TextOf(u) ==
    IF u = <<>> THEN <<>>
    ELSE IF Len(u) = 1 THEN u
    ELSE <<Head(u), "/">> \o TextOf(Tail(u))

C16_CommitMessage ==
    \A i \in 1..Len(cmds) :
        cmds[i].step = "commit" =>
            LET c == cmds[i].cmd
            IN  /\ \E j \in 1..Len(c) :
                     /\ c[j] = "Fix: "
                     /\ j + Len(issue.title) <= Len(c)
                     /\ SubSeq(c, j + 1, j + Len(issue.title)) = issue.title
                /\ \E k \in 1..(Len(c) - 1) :
                     c[k] = "Closes #" /\ c[k + 1] = issue.iid

BeginsWithFence(line) == line.toks # <<>> /\ Head(line.toks) = "<three backticks>"

LabelsOf(lines) ==
    SelectSeq(lines, LAMBDA l :
        l.by = "formatter" /\ l.toks # <<>>
        /\ Head(l.toks) \in {"**Response (", "**Observation ("})

\* C17: the result of format_trajectory_markdown is one <details> container,
\* its steps in trajectory order with step i labelled i, and the only lines
\* in it that begin with three backticks are the fences the formatter writes
\* around each observation, whatever the steps contain.
C17_TrajectoryMarkdown ==
    (op = "format_trajectory_markdown" /\ pc = "done") =>
        /\ ret[1].toks = <<"<details>">>
        /\ ret[Len(ret)].toks = <<"</details>">>
        /\ \A k \in 2..(Len(ret) - 1) :
             ret[k].toks \notin {<<"<details>">>, <<"</details>">>}
        /\ Len(LabelsOf(ret)) = 2 * Len(arg)
        /\ \A i \in 1..Len(arg) :
             /\ LabelsOf(ret)[2 * i - 1].toks[1] = "**Response ("
             /\ LabelsOf(ret)[2 * i - 1].toks[2] = ToString(i - 1)
             /\ LabelsOf(ret)[2 * i].toks[1] = "**Observation ("
             /\ LabelsOf(ret)[2 * i].toks[2] = ToString(i - 1)
        /\ \A k \in 1..Len(ret) : BeginsWithFence(ret[k]) => ret[k].by = "formatter"

\* the description "<verb> #<num>" of a merge request contains "fixes #n" or
\* "closes #n" when letter case is ignored
DescriptionNames(mr, n) ==
    /\ mr.verb \in {"fixes", "Fixes", "closes", "Closes"}
    /\ \/ mr.num = n
       \/ n = "1" /\ mr.num = "12"

StepAt(step) == CHOOSE i \in 1..Len(cmds) : cmds[i].step = step

LocalCopyOutcome(refused) ==
    op = "local_copy" =>
        /\ refused => ~SentStep("upload") /\ ~SentStep("chown")
        /\ (refused /\ pc = "done") => outcome = "raised"
        /\ SentStep("chown") =>
             /\ SentStep("upload")
             /\ StepAt("upload") < StepAt("chown")
             /\ cmds[StepAt("upload")].exit = 0
        /\ (~refused /\ pc = "done") =>
             /\ SentStep("upload")
             /\ cmds[StepAt("upload")].exit = 0 =>
                  /\ SentStep("chown")
                  /\ cmds[StepAt("chown")].exit # 0 =>
                       outcome = "raised" /\ error = "RuntimeError"
                  /\ cmds[StepAt("chown")].exit = 0 => outcome = "returned"

\* C19 as stated: LocalRepoConfig.copy uploads nothing when the path is not a
\* git repository or the checkout is dirty; otherwise it uploads, then runs
\* the ownership fix, and fails with RuntimeError when that exits non-zero.
C19_LocalCopyAsStated ==
    LocalCopyOutcome(~arg.is_git_repo \/ arg.is_dirty)

\* C19: LocalRepoConfig.copy uploads nothing when the path is not a git
\* repository, or when the checkout is dirty and PYTEST_CURRENT_TEST is not in
\* the environment; otherwise it uploads, then runs the ownership fix, and
\* fails with RuntimeError when that exits non-zero.
C19_LocalCopy ==
    LocalCopyOutcome(~arg.is_git_repo \/ (arg.is_dirty /\ ~arg.pytest_current_test))

C19_Witness ==
    /\ op = "local_copy"
    /\ pc = "done"
    /\ arg.is_git_repo
    /\ ~arg.is_dirty
    /\ Len(cmds) = 2
    /\ cmds[1].step = "upload"
    /\ cmds[2].step = "chown"
    /\ cmds[2].exit = 1
    /\ error = "RuntimeError"

VariantOf(type) ==
    CASE type = "text"         -> "text"
      [] type = "text_file"    -> "text_file"
      [] type = "github_issue" -> "github"
      [] type = "ctf_json"     -> "ctf_json"
      [] OTHER                 -> "gitlab"

\* C20: problem_statement_from_simplified_input with type gitlab_issue, and
\* with type issue given a GitLab issue URL, returns a GitlabIssue whose
\* gitlab_url is the input; with types text, text_file, github_issue and
\* ctf_json a call that returns gives the text, file, GitHub-issue and CTF
\* variant.
C20_ProblemStatementDispatch ==
    (op = "problem_statement_from_simplified_input" /\ pc = "done") =>
        /\ (\/ arg.type = "gitlab_issue" /\ _is_gitlab_issue_url(arg.input)
            \/ arg.type = "issue" /\ _is_gitlab_issue_url(arg.input)) =>
               /\ outcome = "returned"
               /\ ret = [type |-> "gitlab", value |-> arg.input]
        /\ (arg.type \in {"text", "text_file", "github_issue", "ctf_json"}
            /\ outcome = "returned") =>
               ret = [type |-> VariantOf(arg.type), value |-> arg.input]

Built(variant) == op = "problem_statement" /\ arg.variant = variant

\* C21: a CTFProblemStatement built from a descriptor with all five fields
\* and an allowed category gets the id <category>_<name> when none is given;
\* a descriptor that lacks a field or has another category fails with a
\* ValidationError.
C21_CtfConstruction ==
    (Built("ctf_json") /\ arg.readable) =>
        LET d == arg.payload
            wellFormed ==
                /\ d.fields = {"name", "category", "files", "description", "flag"}
                /\ d.category \in {"crypto", "rev", "web", "forensics", "pwn", "misc"}
        IN  /\ (wellFormed /\ ~arg.id.given) =>
                 \A k \in 1..Len(ret) : ret[k].id = <<d.category, "_", d.name>>
            /\ ~wellFormed =>
                 /\ ret = <<>>
                 /\ pc = "done" => outcome = "raised" /\ error = "ValidationError"

\* C22: two TextProblemStatement instances built from the same text with no
\* id have the same id, a prefix of the sha256 hex digest of the text; an id
\* that is given is kept.
C22_TextId ==
    (Built("text") /\ pc = "done") =>
        /\ Len(ret) = 2
        /\ ret[1].id = ret[2].id
        /\ ~arg.id.given =>
             /\ ret[1].id # <<>>
             /\ IsPrefix(ret[1].id, Sha256Hex(arg.payload))
        /\ arg.id.given => ret[1].id = arg.id.value

C22_Witness ==
    /\ Built("text")
    /\ pc = "done"
    /\ arg.payload = "fix the bug"
    /\ ~arg.id.given
    /\ Len(ret) = 2
    /\ ret[2].id = SubSeq(Sha256Hex("fix the bug"), 1, 6)

IdsOf(variants) ==
    (op = "problem_statement" /\ arg.variant \in variants /\ pc = "done"
     /\ outcome = "returned") =>
        /\ Len(ret) = 2
        /\ arg.id.given => ret[1].id = arg.id.value /\ ret[2].id = arg.id.value
        /\ ~arg.id.given => ret[1].id = ret[2].id
        /\ (arg.variant = "github" /\ ~arg.id.given) =>
             ret[1].id = <<arg.payload[4], "__", arg.payload[5], "-i", arg.payload[7]>>

\* C23 as stated: for every variant (empty, text, file, GitHub issue, CTF) the
\* id is the one given or a deterministic function of the payload, so two
\* instances built from the same inputs without an id have the same id, and
\* the id of an issue is <owner>__<repo>-i<n>.
C23_IdDeterminismAsStated ==
    IdsOf({"empty", "text", "text_file", "github", "ctf_json"})

\* C23: the same for the text, file, GitHub issue and CTF variants; an empty
\* problem statement keeps a given id and otherwise gets a fresh uuid4.
C23_IdDeterminism ==
    /\ IdsOf({"text", "text_file", "github", "ctf_json"})
    /\ Built("empty") =>
         \A k \in 1..Len(ret) :
             IF arg.id.given THEN ret[k].id = arg.id.value
             ELSE ret[k].id \in {<<"uuid-a">>, <<"uuid-b">>}

C23_Witness ==
    /\ Built("github")
    /\ pc = "done"
    /\ ~arg.id.given
    /\ Len(ret) = 2
    /\ ret[1].id = <<"o", "__", "r", "-i", "1">>
    /\ ret[2].id = <<"o", "__", "r", "-i", "1">>

\* C24: the pull or merge request a hook creates targets the branch set as
\* target_branch in its config, main when the option is left at its default.
C24_TargetBranch ==
    op \in Hooks =>
        \A i \in 1..Len(http) :
            http[i].req \in CreateKinds => http[i].target = target_branch

PublishOps == Hooks \cup {"open_mr", "open_gitlab_mr", "open_github_pr"}

\* place of a sandbox command in the order the publication lists, 0 for the
\* commands outside it (the http.extraHeader commands)
Rank(c) ==
    IF c.cmd = SetUserCmd THEN 1
    ELSE IF c.cmd = RmPatchCmd THEN 2
    ELSE IF StartsWith(c.cmd, "git checkout -b ") THEN 3
    ELSE IF c.cmd = AddCmd THEN 4
    ELSE IF StartsWith(c.cmd, "git commit -m ") THEN 5
    ELSE IF StartsWith(c.cmd, "git remote set-url origin ") THEN 6
    ELSE IF IsPushCmd(c) THEN 7
    ELSE 0

\* the mandatory command that precedes the one of rank r
Before(r) == IF r = 7 THEN 5 ELSE r - 1

CreatedBranch(c) == Tail(c.cmd)

PushedBranch(c) == SubSeq(c.cmd, 5, Len(c.cmd))

\* C25: the sandbox commands of a publication run come in the order set
\* identity, remove model.patch, create branch, stage, commit, (rewrite origin
\* URL), push, none of them twice and none before its predecessor; a create
\* pull/merge request call is made only once the push command has been
\* issued; the branch created, the branch pushed and the source branch of the
\* request carry one name.
C25_PublicationOrder ==
    op \in PublishOps =>
        /\ \A i, j \in 1..Len(cmds) :
             (i < j /\ Rank(cmds[i]) > 0 /\ Rank(cmds[j]) > 0)
                 => Rank(cmds[i]) < Rank(cmds[j])
        /\ \A i \in 1..Len(cmds) :
             (Rank(cmds[i]) \in {2, 3, 4, 5, 7})
                 => \E j \in 1..(i - 1) : Rank(cmds[j]) = Before(Rank(cmds[i]))
        /\ \A i \in 1..Len(cmds) :
             Rank(cmds[i]) = 6
                 => \E j \in 1..(i - 1) : Rank(cmds[j]) = 5
        /\ \A i, j \in 1..Len(cmds) :
             (Rank(cmds[i]) = 3 /\ Rank(cmds[j]) = 7)
                 => CreatedBranch(cmds[i]) = PushedBranch(cmds[j])
        /\ \A k \in 1..Len(http) :
             http[k].req \in CreateKinds
                 => \E i, j \in 1..Len(cmds) :
                      /\ Rank(cmds[i]) = 3
                      /\ Rank(cmds[j]) = 7
                      /\ CreatedBranch(cmds[i]) = http[k].source
                      /\ PushedBranch(cmds[j]) = http[k].source

\* a GitLab run that rewrote the origin URL, pushed and created the request
C25_Witness ==
    /\ op \in PublishOps
    /\ fn \in GitlabFns
    /\ outcome = "returned"
    /\ \E i \in 1..Len(cmds) : Rank(cmds[i]) = 6
    /\ \E i \in 1..Len(cmds) : Rank(cmds[i]) = 7
    /\ \E k \in 1..Len(http) : http[k].req = "create_mr" /\ http[k].ok

GitlabKinds == {"project", "issue", "mrs", "commits", "create_mr"}

\* the header that GITLAB_TOKEN_TYPE selects for a token
SelectedHeader(tok, tt) ==
    IF tok = "" THEN {}
    ELSE IF tt = "oauth" THEN {<<"Authorization", <<"Bearer ", tok>> >>}
    ELSE {<<"PRIVATE-TOKEN", <<tok>> >>}

\* C26: within one run of a hook every GitLab REST request (issue fetch of
\* the guard, associated-commit lookup, issue fetch and request creation of the
\* publication) carries the header selected by the hook's GITLAB_TOKEN_TYPE.
C26_OneAuthScheme ==
    op \in Hooks =>
        \A i \in 1..Len(http) :
            http[i].req \in GitlabKinds
                => http[i].auth = SelectedHeader(token, token_type)

\* C27: an associated-commit lookup for issue N collects no commit from a
\* merge request whose description names a different issue, so the commits
\* that turn the verdict of a hook to false all come from merge requests that
\* name the issue of the run.
C27_OtherIssueIgnored ==
    /\ (op = "_get_associated_commit_urls" /\ pc = "done" /\ outcome = "returned") =>
         \A k \in 1..Len(ret) : arg.mrs[ret[k][1]].num = arg.issue_number
    /\ op \in Hooks =>
         \A k \in 1..Len(commits) :
             commits[k][1] \in 1..Len(mrs)
                 => mrs[commits[k][1]].num = _parse_gitlab_issue_url(ps.url).number

\* the segments between the host and "-/issues/<n>": the project path
ProjectPath(url) == SubSeq(url, 4, Len(url) - 3)

\* C28: for every URL with a scheme that _is_gitlab_issue_url accepts, nested
\* groups included, the instance returned by _parse_gitlab_issue_url is the
\* scheme and host with no path segment, and the push URL a publication
\* builds from the parsed components names every segment of the project path.
C28_InstanceIsHost ==
    /\ (op = "_parse_gitlab_issue_url" /\ pc = "done"
        /\ HasScheme(arg) /\ _is_gitlab_issue_url(arg)) =>
         /\ outcome = "returned"
         /\ ret.instance = SubSeq(arg, 1, 3)
    /\ (op \in PublishOps /\ fn \in GitlabFns) =>
         \A i \in 1..Len(cmds) :
             Rank(cmds[i]) = 6 =>
                 \A k \in 1..Len(ProjectPath(ps.url)) :
                     Contains(cmds[i].cmd, ProjectPath(ps.url)[k])

IsSetHeaderCmd(c) ==
    StartsWith(c.cmd, "git config --global http.extraHeader 'PRIVATE-TOKEN: ")

\* C29: with _dry_run set, no step of a GitLab publication changes the origin
\* URL or the global http.extraHeader of the sandbox, and none sends
\* git remote set-url origin or git config --global http.extraHeader.
C29_DryRunNoCredentialEffects ==
    [][ (dry_run /\ op \in PublishOps /\ fn \in GitlabFns) =>
            /\ originUrl' = originUrl
            /\ extraHeader' = extraHeader
            /\ Len(cmds') > Len(cmds) =>
                 /\ Rank(cmds'[Len(cmds')]) # 6
                 /\ ~IsSetHeaderCmd(cmds'[Len(cmds')]) ]_vars

\* C30: a GitlabRepoConfig.copy that does not set http.extraHeader itself
\* (empty token, or token type oauth) leaves the sandbox's global
\* http.extraHeader as it found it.
C30_CopyKeepsHeader ==
    [][ (op = "copy" /\ pc = "call" /\ (token = "" \/ token_type = "oauth")) =>
            extraHeader' = extraHeader ]_vars

====
